---- MODULE Spec2Model ----
(***************************************************************************)
(* Model of ForceLayoutService (sector based radial layout with a static   *)
(* and a simulation mode) and of the parts of AppComponent that drive it.  *)
(*                                                                         *)
(* Numbers.  Angles are exact rationals in degrees (the code works in      *)
(* radians: 2*PI is 360, -PI/2 is -90).  Coordinates and velocities are    *)
(* fixed-point integers in tenths of a pixel; quotients are rounded to *)
(* the nearest unit.  Math.cos / Math.sin are a table at one degree.       *)
(***************************************************************************)
EXTENDS Integers, Sequences, FiniteSets, TLC

(***************************************************************************)
(* Arithmetic helpers                                                      *)
(***************************************************************************)
\* pixels to fixed-point units (tenths of a pixel)
Px(p) == p * 10

Abs(a) == IF a < 0 THEN -a ELSE a

Max(a, b) == IF a >= b THEN a ELSE b

Min(a, b) == IF a <= b THEN a ELSE b

\* a / b rounded to the nearest integer (halves up), b > 0
RoundDiv(a, b) == (2 * a + b) \div (2 * b)

\* a / b for b > 0, rounded towards zero: a decaying velocity dies out
TruncDiv(a, b) == IF a >= 0 THEN a \div b ELSE -((-a) \div b)

\* a / b for b > 0, rounded away from zero: a push computed in fixed point is
\* never shorter than the exact one
AwayDiv(a, b) == IF a >= 0 THEN (a + b - 1) \div b ELSE -((-a + b - 1) \div b)

RECURSIVE Gcd(_, _)
Gcd(a, b) == IF b = 0 THEN a ELSE Gcd(b, a % b)

\* rationals <<n, d>> with d > 0, in lowest terms
RatBy(n, d, g) ==
  IF d < 0 THEN <<(-n) \div g, (-d) \div g>> ELSE <<n \div g, d \div g>>

Rat(n, d) == RatBy(n, d, Gcd(Abs(n), Abs(d)))

RInt(n) == <<n, 1>>

RAdd(p, q) == Rat(p[1] * q[2] + q[1] * p[2], p[2] * q[2])

RSub(p, q) == Rat(p[1] * q[2] - q[1] * p[2], p[2] * q[2])

RMul(p, q) == Rat(p[1] * q[1], p[2] * q[2])

RDiv(p, q) == Rat(p[1] * q[2], p[2] * q[1])

RLt(p, q) == p[1] * q[2] < q[1] * p[2]

RLe(p, q) == p[1] * q[2] <= q[1] * p[2]

RMax(p, q) == IF RLt(p, q) THEN q ELSE p

RECURSIVE ISqrtBits(_, _, _)
ISqrtBits(n, r, b) ==
  IF b = 0 THEN r
  ELSE ISqrtBits(n, IF (r + b) * (r + b) <= n THEN r + b ELSE r, b \div 2)

\* Math.sqrt on fixed-point values: floor of the square root
Sqrt(n) == ISqrtBits(n, 0, 16384)

SinTable ==
  << 0, 17, 35, 52, 70, 87, 105, 122, 139, 156, 174, 191, 208, 225, 242, 259,
     276, 292, 309, 326, 342, 358, 375, 391, 407, 423, 438, 454, 469, 485, 500,
     515, 530, 545, 559, 574, 588, 602, 616, 629, 643, 656, 669, 682, 695, 707,
     719, 731, 743, 755, 766, 777, 788, 799, 809, 819, 829, 839, 848, 857, 866,
     875, 883, 891, 899, 906, 914, 921, 927, 934, 940, 946, 951, 956, 961, 966,
     970, 974, 978, 982, 985, 988, 990, 993, 995, 996, 998, 999, 999, 1000,
     1000 >>

\* 1000 * sin(m) for m in 0..359, folded onto the first quadrant
SinFold(m) ==
  (IF m <= 180 THEN 1 ELSE -1)
    * SinTable[(IF m <= 90 THEN m
                ELSE IF m <= 180 THEN 180 - m
                ELSE IF m <= 270 THEN m - 180
                ELSE 360 - m) + 1]

\* 1000 * sin(d) for an integer number of degrees d
SinDeg(d) == SinFold(d % 360)

CosDeg(d) == SinDeg(d + 90)

\* Math.cos(angle) * dist and Math.sin(angle) * dist, angle a rational
RRound(p) == RoundDiv(p[1], p[2])

PolarX(angle, dist) == RoundDiv(CosDeg(RRound(angle)) * dist, 1000)

PolarY(angle, dist) == RoundDiv(SinDeg(RRound(angle)) * dist, 1000)

(***************************************************************************)
(* CONFIG and the source trees                                             *)
(***************************************************************************)
\* CONFIG.BASE_DISTANCES[level] || CONFIG.BASE_DISTANCES[4], in pixels
BASE_DISTANCES(level) ==
  IF level = 1 THEN 350 ELSE IF level = 2 THEN 300 ELSE 100

DISTANCE_PER_CHILD == 40

MIN_ANGLE_BETWEEN_SIBLINGS == 25

\* CONFIG.COLLISION_RADII[Math.min(level, 4)] || CONFIG.COLLISION_RADII[4]
COLLISION_RADII(level) ==
  IF level = 0 THEN 100
  ELSE IF level = 1 THEN 110
  ELSE IF level = 2 THEN 100
  ELSE IF level = 3 THEN 65 ELSE 60

RootId == "r"

\* The Node trees handed to the service: id -> ordered child ids.
TreeA ==
  [id \in {"r", "a", "b", "c", "a1", "a2", "x", "y", "b1"} |->
     CASE id = "r"  -> <<"a", "b", "c">>
       [] id = "a"  -> <<"a1", "a2">>
       [] id = "a1" -> <<"x", "y">>
       [] id = "b"  -> <<"b1">>
       [] OTHER     -> <<>>]

TreeB ==
  [id \in {"r", "a", "b", "a1", "a2", "a3", "a4"} |->
     CASE id = "r"  -> <<"a", "b">>
       [] id = "a"  -> <<"a1", "a2", "a3", "a4">>
       [] OTHER     -> <<>>]

Trees == {TreeA, TreeB}

\* ids that can occur in an expanded set
Expandable == {"a", "a1", "b"}

Range(s) == {s[i] : i \in 1..Len(s)}

(***************************************************************************)
(* PHASE 1: buildLayoutTree                                                *)
(***************************************************************************)
NewLayoutNode(id, level, parentId, children) ==
  [id |-> id, level |-> level, parentId |-> parentId, children |-> children,
   descendantCount |-> 0, maxDepth |-> 0, weight |-> 0,
   sectorStart |-> RInt(0), sectorEnd |-> RInt(360), sectorCenter |-> RInt(0),
   idealX |-> 0, idealY |-> 0, idealRadius |-> 0, ring |-> 0,
   x |-> 0, y |-> 0, vx |-> 0, vy |-> 0, fx |-> <<>>, fy |-> <<>>]

RECURSIVE buildNode(_, _, _, _, _)
RECURSIVE buildChildren(_, _, _, _, _, _)
\* a variant that shows every node's children, expanded or not
buildNodeUnfolded(tree, expandedIds, id, level, parentId) ==
  <<NewLayoutNode(id, level, parentId, tree[id])>>
    \o buildChildren(tree, expandedIds, tree[id], 1, level + 1, id)

\* the nodes pushed by buildNode(node, level, parentId), in push order
buildNode(tree, expandedIds, id, level, parentId) ==
  LET shouldShowChildren == level < 1 \/ id \in expandedIds
      kids == IF shouldShowChildren THEN tree[id] ELSE <<>>
  IN  <<NewLayoutNode(id, level, parentId, kids)>>
        \o buildChildren(tree, expandedIds, kids, 1, level + 1, id)

buildChildren(tree, expandedIds, kids, i, level, parentId) ==
  IF i > Len(kids) THEN <<>>
  ELSE buildNode(tree, expandedIds, kids[i], level, parentId)
         \o buildChildren(tree, expandedIds, kids, i + 1, level, parentId)

\* layoutNodes (array order) and nodeMap after buildLayoutTree
buildLayoutTree(tree, expandedIds) ==
  LET pushed == buildNode(tree, expandedIds, RootId, 0, "null")
      ids == [i \in 1..Len(pushed) |-> pushed[i].id]
  IN  [layoutNodes |-> ids,
       nodeMap |-> [id \in Range(ids) |->
                      LET i == CHOOSE k \in 1..Len(pushed) : pushed[k].id = id
                      IN  pushed[i]]]

(***************************************************************************)
(* PHASE 2: analyzeSubtrees                                                *)
(***************************************************************************)
RECURSIVE analyze(_, _)
RECURSIVE analyzeChildren(_, _, _, _, _)
\* nodeMap after analyze(node)
analyze(nm, id) ==
  IF Len(nm[id].children) = 0
  THEN [nm EXCEPT ![id].descendantCount = 0, ![id].maxDepth = 0, ![id].weight = 1]
  ELSE analyzeChildren(nm, id, 1, 0, 0)

analyzeChildren(nm, id, i, totalDescendants, maxChildDepth) ==
  IF i > Len(nm[id].children)
  THEN [nm EXCEPT ![id].descendantCount = totalDescendants,
                  ![id].maxDepth = maxChildDepth,
                  ![id].weight = totalDescendants + (maxChildDepth * 2) + 1]
  ELSE LET child == nm[id].children[i]
           done == analyze(nm, child)
       IN  analyzeChildren(done, id, i + 1,
                           totalDescendants + 1 + done[child].descendantCount,
                           Max(maxChildDepth, done[child].maxDepth + 1))

analyzeSubtrees(nm) == IF RootId \in DOMAIN nm THEN analyze(nm, RootId) ELSE nm

(***************************************************************************)
(* PHASE 3: assignSectors                                                  *)
(***************************************************************************)
\* children.reduce((sum, child) => sum + child.weight, 0), from child i on
RECURSIVE SumWeights(_, _, _)
SumWeights(nm, children, i) ==
  IF i > Len(children) THEN 0
  ELSE nm[children[i]].weight + SumWeights(nm, children, i + 1)

RECURSIVE assignLevel1Loop(_, _, _)
assignLevel1Loop(nm, children, i) ==
  IF i > Len(children) THEN nm
  ELSE LET anglePerChild == Rat(360, Len(children))
           startAngle == RInt(-90)
           index == i - 1
           c == children[i]
       IN  assignLevel1Loop(
             [nm EXCEPT
                ![c].sectorStart = RAdd(startAngle, RMul(RInt(index), anglePerChild)),
                ![c].sectorEnd = RAdd(startAngle, RMul(RInt(index + 1), anglePerChild)),
                ![c].sectorCenter =
                   RAdd(startAngle, RMul(Rat(2 * index + 1, 2), anglePerChild))],
             children, i + 1)

\* a variant that shares the circle in proportion to the subtree weights, as
\* assignChildSectors does below level 1
assignLevel1SectorsByWeight(nm, root) ==
  LET children == nm[root].children
      total == SumWeights(nm, children, 1)
      Before(i) == total - SumWeights(nm, children, i)
      IndexOf(id) == CHOOSE i \in 1..Len(children) : children[i] = id
  IN  [id \in DOMAIN nm |->
         IF id \in Range(children)
         THEN [nm[id] EXCEPT
                 !.sectorStart = RAdd(RInt(-90), Rat(360 * Before(IndexOf(id)), total)),
                 !.sectorEnd = RAdd(RInt(-90),
                                    Rat(360 * Before(IndexOf(id) + 1), total)),
                 !.sectorCenter =
                    RAdd(RInt(-90),
                         Rat(180 * (Before(IndexOf(id)) + Before(IndexOf(id) + 1)),
                             total))]
         ELSE nm[id]]

assignLevel1Sectors(nm, root) ==
  IF Len(nm[root].children) = 0 THEN nm
  ELSE assignLevel1Loop(nm, nm[root].children, 1)

RECURSIVE assignChildSectors(_, _)
RECURSIVE assignChildLoop(_, _, _, _, _, _)
assignChildSectors(nm, parent) ==
  LET children == nm[parent].children
      totalWeight == SumWeights(nm, children, 1)
      availableSector == RSub(nm[parent].sectorEnd, nm[parent].sectorStart)
      minAnglePerChild == RInt(MIN_ANGLE_BETWEEN_SIBLINGS)
      minTotalAngle == RMul(minAnglePerChild, RInt(Len(children)))
      availableAngle == RMax(RMul(availableSector, Rat(9, 10)), minTotalAngle)
      padding == RDiv(RSub(availableSector, availableAngle), RInt(2))
  IN  IF Len(children) = 0 THEN nm
      ELSE assignChildLoop(nm, parent, 1, RAdd(nm[parent].sectorStart, padding),
                           totalWeight, availableAngle)

\* a variant that advances by the proportional share instead of the share
\* after the minimum angle was applied
assignChildLoopByShare(nm, parent, i, currentAngle, totalWeight, availableAngle) ==
  IF i > Len(nm[parent].children) THEN nm
  ELSE LET child == nm[parent].children[i]
           childAngle == RMul(Rat(nm[child].weight, totalWeight), availableAngle)
           actualAngle == RMax(childAngle, RInt(MIN_ANGLE_BETWEEN_SIBLINGS))
           set == [nm EXCEPT
                     ![child].sectorStart = currentAngle,
                     ![child].sectorEnd = RAdd(currentAngle, actualAngle),
                     ![child].sectorCenter =
                        RAdd(currentAngle, RDiv(actualAngle, RInt(2)))]
       IN  assignChildLoop(assignChildSectors(set, child), parent, i + 1,
                           RAdd(currentAngle, childAngle), totalWeight,
                           availableAngle)

assignChildLoop(nm, parent, i, currentAngle, totalWeight, availableAngle) ==
  IF i > Len(nm[parent].children) THEN nm
  ELSE LET child == nm[parent].children[i]
           childAngle == RMul(Rat(nm[child].weight, totalWeight), availableAngle)
           actualAngle == RMax(childAngle, RInt(MIN_ANGLE_BETWEEN_SIBLINGS))
           set == [nm EXCEPT
                     ![child].sectorStart = currentAngle,
                     ![child].sectorEnd = RAdd(currentAngle, actualAngle),
                     ![child].sectorCenter =
                        RAdd(currentAngle, RDiv(actualAngle, RInt(2)))]
       IN  assignChildLoop(assignChildSectors(set, child), parent, i + 1,
                           RAdd(currentAngle, actualAngle), totalWeight,
                           availableAngle)

RECURSIVE assignL1Children(_, _, _)
assignL1Children(nm, children, i) ==
  IF i > Len(children) THEN nm
  ELSE assignL1Children(assignChildSectors(nm, children[i]), children, i + 1)

assignSectors(nm) ==
  IF RootId \notin DOMAIN nm THEN nm
  ELSE LET rooted == [nm EXCEPT ![RootId].sectorStart = RInt(0),
                                ![RootId].sectorEnd = RInt(360),
                                ![RootId].sectorCenter = RInt(0)]
           level1 == assignLevel1Sectors(rooted, RootId)
       IN  assignL1Children(level1, level1[RootId].children, 1)

(***************************************************************************)
(* PHASE 4: calculateIdealPositions                                        *)
(***************************************************************************)
RECURSIVE positionRadialLoop(_, _, _, _)
positionRadialLoop(nm, parent, i, dynamicDistance) ==
  IF i > Len(nm[parent].children) THEN nm
  ELSE LET child == nm[parent].children[i]
           angle == nm[child].sectorCenter
       IN  positionRadialLoop(
             [nm EXCEPT
                ![child].idealRadius = dynamicDistance,
                ![child].ring = 0,
                ![child].idealX = nm[parent].idealX + PolarX(angle, Px(dynamicDistance)),
                ![child].idealY = nm[parent].idealY + PolarY(angle, Px(dynamicDistance))],
             parent, i + 1, dynamicDistance)

\* Level 1 & 2
positionChildrenRadial(nm, parent, level) ==
  positionRadialLoop(nm, parent, 1,
    BASE_DISTANCES(level) + Len(nm[parent].children) * DISTANCE_PER_CHILD)

\* Math.ceil(Math.sqrt(count))
CeilSqrt(count) == CHOOSE k \in 0..count : k * k >= count /\ (k = 0 \/ (k - 1) * (k - 1) < count)

RECURSIVE positionFanLoop(_, _, _, _)
positionFanLoop(nm, parent, nodeIndex, level) ==
  LET children == nm[parent].children
      count == Len(children)
      sectorCenter == nm[parent].sectorCenter
      span == RSub(nm[parent].sectorEnd, nm[parent].sectorStart)
      sectorSpan == IF RLt(span, RInt(0)) THEN RSub(RInt(0), span) ELSE span
      rowSpacing == 70
      nodesPerRow == Max(3, Min(5, CeilSqrt(count)))
      row == nodeIndex \div nodesPerRow
      col == nodeIndex % nodesPerRow
      nodesInThisRow == Min(nodesPerRow, count - row * nodesPerRow)
      distanceFromParent == BASE_DISTANCES(level) + row * rowSpacing
      availableAngle == RMul(sectorSpan, Rat(7, 10))
      angleStep == IF nodesInThisRow > 1
                   THEN RDiv(availableAngle, RInt(nodesInThisRow - 1))
                   ELSE RInt(0)
      startAngle == RSub(sectorCenter, RDiv(availableAngle, RInt(2)))
      angle == IF nodesInThisRow = 1 THEN sectorCenter
               ELSE RAdd(startAngle, RMul(RInt(col), angleStep))
      child == children[nodeIndex + 1]
  IN  IF nodeIndex >= count THEN nm
      ELSE positionFanLoop(
             [nm EXCEPT
                ![child].idealRadius = nm[parent].idealRadius + distanceFromParent,
                ![child].idealX = nm[parent].idealX + PolarX(angle, Px(distanceFromParent)),
                ![child].idealY = nm[parent].idealY + PolarY(angle, Px(distanceFromParent)),
                ![child].ring = row],
             parent, nodeIndex + 1, level)

\* Level 3+
positionChildrenFan(nm, parent, level) == positionFanLoop(nm, parent, 0, level)

RECURSIVE calculateChildPositions(_, _)
RECURSIVE calculateChildrenLoop(_, _, _)
calculateChildPositions(nm, parent) ==
  LET level == nm[parent].level + 1
      placed == IF level <= 2 THEN positionChildrenRadial(nm, parent, level)
                ELSE positionChildrenFan(nm, parent, level)
  IN  IF Len(nm[parent].children) = 0 THEN nm
      ELSE calculateChildrenLoop(placed, parent, 1)

calculateChildrenLoop(nm, parent, i) ==
  IF i > Len(nm[parent].children) THEN nm
  ELSE calculateChildrenLoop(calculateChildPositions(nm, nm[parent].children[i]),
                             parent, i + 1)

calculateIdealPositions(nm) ==
  IF RootId \notin DOMAIN nm THEN nm
  ELSE calculateChildPositions(
         [nm EXCEPT ![RootId].idealX = 0, ![RootId].idealY = 0,
                    ![RootId].idealRadius = 0],
         RootId)

\* analyzeSubtrees; assignSectors; calculateIdealPositions on a built tree
layoutOf(built) ==
  [layoutNodes |-> built.layoutNodes,
   nodeMap |-> calculateIdealPositions(assignSectors(analyzeSubtrees(built.nodeMap)))]

\* buildLayoutTree and the three phases after it
FreshLayout(tree, expandedIds) == layoutOf(buildLayoutTree(tree, expandedIds))

(***************************************************************************)
(* State                                                                   *)
(***************************************************************************)
VARIABLES
  layoutMode,      \* _layoutMode: "static" or "simulation"
  simulation,      \* this.simulation: NoSimulation or a d3 simulation object
  layoutNodes,     \* this.layoutNodes: the ids in array order
  nodeMap,         \* this.nodeMap: id -> LayoutNode
  userPositions,   \* this.userPositions: id -> <<x, y>>
  nodePositions,   \* _nodePositions: the published map id -> <<x, y>> (pixels)
  isSettling,      \* _isSettling
  rootNode,        \* AppComponent.rootNode(): the tree of the latest rebuild
  expandedNodes,   \* AppComponent.expandedNodes(): its expanded set
  staticConverged, \* whether the latest static resolver ended by its early break
  released,        \* ids whose userPositions entry is the point of their release
  lastCall,        \* the operation that ran last, with the id it was given
  steps            \* number of operations so far

vars == <<layoutMode, simulation, layoutNodes, nodeMap, userPositions,
          nodePositions, isSettling, rootNode, expandedNodes,
          staticConverged, released, lastCall, steps>>

\* longest operation sequence explored
MaxSteps == 3

EmptyMap == [id \in {} |-> <<0, 0>>]

NoSimulation == [exists |-> FALSE, running |-> FALSE, alpha |-> 0,
                 nodes |-> "none", forces |-> "none"]

\* Math.round on a fixed-point value, in pixels
MathRound(v) == RoundDiv(v, 10)

\* the map updatePositionSignal publishes
updatePositionSignal(order, nm) ==
  [id \in Range(order) |-> <<MathRound(nm[id].x), MathRound(nm[id].y)>>]

(***************************************************************************)
(* Static mode: applyStaticLayout and resolveCollisionsStatically          *)
(***************************************************************************)
ITERATIONS == 50

PADDING == 10

IsFixed(nm, up, id) == nm[id].level = 0 \/ id \in DOMAIN up

\* a variant that halves the push also when only one node can move
pushApartHalved(nm, aIsFixed, bIsFixed, a, b, mx, my, distance) ==
  IF ~aIsFixed /\ ~bIsFixed
  THEN [nm EXCEPT ![a].idealX = @ - AwayDiv(mx, 2 * distance),
                  ![a].idealY = @ - AwayDiv(my, 2 * distance),
                  ![b].idealX = @ + AwayDiv(mx, 2 * distance),
                  ![b].idealY = @ + AwayDiv(my, 2 * distance)]
  ELSE IF ~aIsFixed
  THEN [nm EXCEPT ![a].idealX = @ - AwayDiv(mx, 2 * distance),
                  ![a].idealY = @ - AwayDiv(my, 2 * distance)]
  ELSE [nm EXCEPT ![b].idealX = @ + AwayDiv(mx, 2 * distance),
                  ![b].idealY = @ + AwayDiv(my, 2 * distance)]

\* the pushes of one colliding pair; (mx, my) is the offset times the overlap
pushApart(nm, aIsFixed, bIsFixed, a, b, mx, my, distance) ==
  IF ~aIsFixed /\ ~bIsFixed
  THEN [nm EXCEPT ![a].idealX = @ - AwayDiv(mx, 2 * distance),
                  ![a].idealY = @ - AwayDiv(my, 2 * distance),
                  ![b].idealX = @ + AwayDiv(mx, 2 * distance),
                  ![b].idealY = @ + AwayDiv(my, 2 * distance)]
  ELSE IF ~aIsFixed
  THEN [nm EXCEPT ![a].idealX = @ - AwayDiv(mx, distance),
                  ![a].idealY = @ - AwayDiv(my, distance)]
  ELSE [nm EXCEPT ![b].idealX = @ + AwayDiv(mx, distance),
                  ![b].idealY = @ + AwayDiv(my, distance)]

resolveOverlap(nm, aIsFixed, bIsFixed, a, b, dx, dy, distance, minDistance) ==
  [nm |-> pushApart(nm, aIsFixed, bIsFixed, a, b, dx * (minDistance - distance),
                    dy * (minDistance - distance), distance),
   hit |-> TRUE]

\* distance < minDistance && distance > 0, decided on the squares
resolveOffset(nm, aIsFixed, bIsFixed, a, b, dx, dy, minDistance) ==
  IF aIsFixed /\ bIsFixed THEN [nm |-> nm, hit |-> FALSE]
  ELSE IF ~(/\ Abs(dx) < minDistance
            /\ Abs(dy) < minDistance
            /\ dx * dx + dy * dy < minDistance * minDistance
            /\ dx * dx + dy * dy > 0)
  THEN [nm |-> nm, hit |-> FALSE]
  ELSE resolveOverlap(nm, aIsFixed, bIsFixed, a, b, dx, dy,
                      Sqrt(dx * dx + dy * dy), minDistance)

\* one pair (i, j) of the inner loop: the node map and whether it collided
resolvePair(nm, up, a, b) ==
  resolveOffset(nm, IsFixed(nm, up, a), IsFixed(nm, up, b), a, b,
                nm[b].idealX - nm[a].idealX, nm[b].idealY - nm[a].idealY,
                Px(COLLISION_RADII(nm[a].level) + COLLISION_RADII(nm[b].level)
                     + PADDING))

RECURSIVE resolveRow(_, _, _, _, _, _)
RECURSIVE resolvePairs(_, _, _, _, _)
RECURSIVE resolveIterations(_, _, _, _)
\* the inner loop goes on from what pair (i, j) left
pairsFrom(order, nm, up, r, i, j, hasCollision) ==
  IF r.hit THEN resolveRow(order, r.nm, up, i, j + 1, TRUE)
  ELSE resolveRow(order, nm, up, i, j + 1, hasCollision)

\* the inner loop over j > i of one iteration
resolveRow(order, nm, up, i, j, hasCollision) ==
  IF j > Len(order) THEN [nm |-> nm, hit |-> hasCollision]
  ELSE pairsFrom(order, nm, up, resolvePair(nm, up, order[i], order[j]), i, j,
                 hasCollision)

\* the outer loop goes on from what the inner loop of node i left
rowsFrom(order, nm, up, r, i) ==
  IF r.nm = nm THEN resolvePairs(order, nm, up, i + 1, r.hit)
  ELSE resolvePairs(order, r.nm, up, i + 1, r.hit)

\* the outer loop over i of one iteration
resolvePairs(order, nm, up, i, hasCollision) ==
  IF i > Len(order) THEN [nm |-> nm, hit |-> hasCollision]
  ELSE rowsFrom(order, nm, up, resolveRow(order, nm, up, i, i + 1, hasCollision), i)

\* if (!hasCollision) break, after the iteration that left r
iterationsFrom(nm, r) ==
  IF ~r.hit THEN [nm |-> r.nm, converged |-> TRUE]
  ELSE IF r.nm = nm THEN [nm |-> nm, converged |-> FALSE]
  ELSE [nm |-> r.nm, converged |-> FALSE]

\* one iteration of the loop, none once the break has ended the loop
resolveIteration(order, s, up) ==
  IF s.converged THEN s
  ELSE iterationsFrom(s.nm, resolvePairs(order, s.nm, up, 1, FALSE))

\* the iterations that are left go on from what the ones before left
resolveRest(order, s, up, count) ==
  IF s.converged THEN s ELSE resolveIterations(order, s, up, count)

\* the next count iterations of the loop, taken as two runs one after the
\* other; s holds the node map and whether the loop has ended by its break
resolveIterations(order, s, up, count) ==
  IF count = 1 THEN resolveIteration(order, s, up)
  ELSE resolveRest(order, resolveIterations(order, s, up, count \div 2), up,
                   count - count \div 2)

resolveCollisionsStatically(order, nm, up) ==
  resolveIterations(order, [nm |-> nm, converged |-> FALSE], up, ITERATIONS)

initializeActualPositions(nm) ==
  [id \in DOMAIN nm |-> [nm[id] EXCEPT !.x = nm[id].idealX, !.y = nm[id].idealY]]

\* a variant that eases every node that was already laid out half way from
\* its position before towards the resolved ideal position
takePositionsEased(resolved) ==
  [nm |-> [id \in DOMAIN resolved.nm |->
             IF id \in DOMAIN nodeMap
             THEN [resolved.nm[id] EXCEPT
                     !.x = (nodeMap[id].x + resolved.nm[id].idealX) \div 2,
                     !.y = (nodeMap[id].y + resolved.nm[id].idealY) \div 2]
             ELSE [resolved.nm[id] EXCEPT !.x = resolved.nm[id].idealX,
                                          !.y = resolved.nm[id].idealY]],
   converged |-> resolved.converged]

\* last loop of applyStaticLayout: the resolved ideal positions are taken
takePositions(resolved) ==
  [nm |-> initializeActualPositions(resolved.nm), converged |-> resolved.converged]

\* the node map applyStaticLayout leaves, and whether its resolver ended by
\* the early break
applyStaticLayout(order, nm, up) ==
  takePositions(
    resolveCollisionsStatically(
      order,
      \* first loop: userPositions become the ideal positions
      [id \in DOMAIN nm |->
         IF nm[id].level # 0 /\ id \in DOMAIN up
         THEN [nm[id] EXCEPT !.idealX = up[id][1], !.idealY = up[id][2]]
         ELSE nm[id]],
      up))

(***************************************************************************)
(* Simulation mode: the d3 simulation and the three forces                 *)
(***************************************************************************)
\* CONFIG.ALPHA_DECAY, CONFIG.VELOCITY_DECAY, strengths: in thousandths
ALPHA_DECAY == 80

VELOCITY_DECAY == 600

ANCHOR_STRENGTH == 500

SECTOR_CONSTRAINT_STRENGTH == 980

COLLISION_STRENGTH == 800

\* alpha (in thousandths) below which the timer stops and 'end' is emitted.
\* d3's default is 1; the model stops the loop earlier to bound its length.
AlphaMin == 800

fixLevel0Node(nm) ==
  [id \in DOMAIN nm |->
     IF nm[id].level = 0
     THEN [nm[id] EXCEPT !.fx = <<nm[id].idealX>>, !.fy = <<nm[id].idealY>>,
                         !.x = nm[id].idealX, !.y = nm[id].idealY]
     ELSE nm[id]]

\* forceSimulation(nodes): initializeNodes puts a fixed node at fx, fy
initializeNodes(nm) ==
  [id \in DOMAIN nm |->
     [nm[id] EXCEPT !.x = IF nm[id].fx # <<>> THEN nm[id].fx[1] ELSE @,
                    !.y = IF nm[id].fy # <<>> THEN nm[id].fy[1] ELSE @]]

\* createAnchorForce
RECURSIVE anchorForce(_, _, _)
anchorForce(order, nm, i) ==
  IF i > Len(order) THEN nm
  ELSE LET n == nm[order[i]]
           strength == IF n.level >= 3 THEN 800 ELSE ANCHOR_STRENGTH
           dx == n.idealX - n.x
           dy == n.idealY - n.y
       IN  IF n.level = 0 THEN anchorForce(order, nm, i + 1)
           ELSE anchorForce(order,
                  [nm EXCEPT ![order[i]].vx = @ + RoundDiv(dx * strength, 1000),
                             ![order[i]].vy = @ + RoundDiv(dy * strength, 1000)],
                  i + 1)

\* Math.atan2 of two non-negative numbers, in whole degrees, in 0..90
AtanAcute(ay, ax) ==
  CHOOSE d \in 0..90 :
    /\ SinDeg(d) * ax <= CosDeg(d) * ay
    /\ (d = 90 \/ SinDeg(d + 1) * ax > CosDeg(d + 1) * ay)

\* the quadrant of (x, y) applied to the acute angle q
AtanQuadrant(y, x, q) ==
  IF x = 0 /\ y = 0 THEN 0
  ELSE IF x >= 0 /\ y >= 0 THEN q
  ELSE IF x < 0 /\ y >= 0 THEN 180 - q
  ELSE IF x < 0 /\ y < 0 THEN IF q = 0 THEN 180 ELSE q - 180
  ELSE -q

\* Math.atan2(y, x) in whole degrees, in -179..180
Atan2Deg(y, x) == AtanQuadrant(y, x, AtanAcute(Abs(y), Abs(x)))

RECURSIVE normalizeAngle(_)
normalizeAngle(angle) ==
  IF RLt(angle, RInt(0)) THEN normalizeAngle(RAdd(angle, RInt(360)))
  ELSE IF RLe(RInt(360), angle) THEN normalizeAngle(RSub(angle, RInt(360)))
  ELSE angle

isAngleInSector(angle, start, end) ==
  IF RLe(start, end) THEN RLe(start, angle) /\ RLe(angle, end)
  ELSE RLe(start, angle) \/ RLe(angle, end)

\* Math.abs on a rational
RAbs(p) == IF p[1] < 0 THEN <<-p[1], p[2]>> ELSE p

\* if (diff > Math.PI) diff = 2 * Math.PI - diff
foldDifference(diff) == IF RLt(RInt(180), diff) THEN RSub(RInt(360), diff) ELSE diff

angleDifference(a, b) == foldDifference(RAbs(RSub(a, b)))

\* the sector boundary nearer to the node's angle
nearestBoundary(n, normalizedCurrent) ==
  IF RLt(angleDifference(normalizedCurrent, normalizeAngle(n.sectorStart)),
         angleDifference(normalizedCurrent, normalizeAngle(n.sectorEnd)))
  THEN n.sectorStart
  ELSE n.sectorEnd

\* the pull of node id towards the boundary point at its current radius
pullToBoundary(nm, id, parent, targetAngle, currentRadius) ==
  [nm EXCEPT
     ![id].vx = @ + RoundDiv((parent.x + PolarX(targetAngle, currentRadius) - nm[id].x)
                               * SECTOR_CONSTRAINT_STRENGTH, 1000),
     ![id].vy = @ + RoundDiv((parent.y + PolarY(targetAngle, currentRadius) - nm[id].y)
                               * SECTOR_CONSTRAINT_STRENGTH, 1000)]

\* one node of the loop, given its offset from the parent and its angle
constrainAt(nm, id, relX, relY, normalizedCurrent) ==
  IF isAngleInSector(normalizedCurrent, normalizeAngle(nm[id].sectorStart),
                     normalizeAngle(nm[id].sectorEnd))
  THEN nm
  ELSE pullToBoundary(nm, id, nm[nm[id].parentId],
                      nearestBoundary(nm[id], normalizedCurrent),
                      Sqrt(relX * relX + relY * relY))

constrainOffset(nm, id, relX, relY) ==
  constrainAt(nm, id, relX, relY, normalizeAngle(RInt(Atan2Deg(relY, relX))))

constrainNode(nm, id) ==
  IF nm[id].level = 0 \/ nm[id].level >= 3 \/ nm[id].parentId \notin DOMAIN nm
  THEN nm
  ELSE constrainOffset(nm, id, nm[id].x - nm[nm[id].parentId].x,
                       nm[id].y - nm[nm[id].parentId].y)

\* createSectorConstraintForce
RECURSIVE sectorConstraintForce(_, _, _)
sectorConstraintForce(order, nm, i) ==
  IF i > Len(order) THEN nm
  ELSE sectorConstraintForce(order, constrainNode(nm, order[i]), i + 1)

\* d3 forceCollide, one pair (node i, data j > i); xi, yi are node i's
\* predicted position taken when its visit starts; jiggle is the sign d3's
\* random jiggle gives a zero offset.
collidePush(nm, a, b, px, py, ri2, rj2) ==
  [nm EXCEPT ![a].vx = @ + RoundDiv(px * rj2, ri2 + rj2),
             ![a].vy = @ + RoundDiv(py * rj2, ri2 + rj2),
             ![b].vx = @ - (px - RoundDiv(px * rj2, ri2 + rj2)),
             ![b].vy = @ - (py - RoundDiv(py * rj2, ri2 + rj2))]

\* the pair at offset (x, y) and distance l, closer than r
collideAt(nm, a, b, x, y, l, r, ri, rj, strength) ==
  collidePush(nm, a, b,
              RoundDiv(x * (r - l) * (strength \div 100), l * 10),
              RoundDiv(y * (r - l) * (strength \div 100), l * 10),
              ri * ri, rj * rj)

collideOffset(nm, a, b, x0, y0, r, ri, rj, strength, jiggle) ==
  IF ~(Abs(x0) < r /\ Abs(y0) < r /\ x0 * x0 + y0 * y0 < r * r) THEN nm
  ELSE IF x0 = 0 /\ y0 = 0
  THEN collideAt(nm, a, b, jiggle, jiggle, 1, r, ri, rj, strength)
  ELSE collideAt(nm, a, b, x0, y0, Sqrt(x0 * x0 + y0 * y0), r, ri, rj, strength)

collidePair(nm, a, b, xi, yi, radius, strength, jiggle) ==
  collideOffset(nm, a, b, xi - nm[b].x - nm[b].vx, yi - nm[b].y - nm[b].vy,
                Px(radius[a] + radius[b]), radius[a], radius[b], strength, jiggle)

RECURSIVE collideVisit(_, _, _, _, _, _, _, _, _)
RECURSIVE collideNodes(_, _, _, _, _, _)
RECURSIVE collideForce(_, _, _, _, _, _)
\* the visit of node i goes on from the map its pair (i, j) left
visitFrom(order, nm, next, i, j, xi, yi, radius, strength, jiggle) ==
  IF next = nm THEN collideVisit(order, nm, i, j + 1, xi, yi, radius, strength, jiggle)
  ELSE collideVisit(order, next, i, j + 1, xi, yi, radius, strength, jiggle)

collideVisit(order, nm, i, j, xi, yi, radius, strength, jiggle) ==
  IF j > Len(order) THEN nm
  ELSE visitFrom(order, nm,
                 collidePair(nm, order[i], order[j], xi, yi, radius, strength, jiggle),
                 i, j, xi, yi, radius, strength, jiggle)

\* the loop over the nodes goes on from the map the visit of node i left
nodesFrom(order, nm, next, i, radius, strength, jiggle) ==
  IF next = nm THEN collideNodes(order, nm, i + 1, radius, strength, jiggle)
  ELSE collideNodes(order, next, i + 1, radius, strength, jiggle)

collideNodes(order, nm, i, radius, strength, jiggle) ==
  IF i > Len(order) THEN nm
  ELSE nodesFrom(order, nm,
                 collideVisit(order, nm, i, i + 1, nm[order[i]].x + nm[order[i]].vx,
                              nm[order[i]].y + nm[order[i]].vy, radius, strength, jiggle),
                 i, radius, strength, jiggle)

\* the loop over the iterations goes on from the map one iteration left
forceFrom(order, nm, next, radius, strength, iterations, jiggle) ==
  IF next = nm THEN collideForce(order, nm, radius, strength, iterations - 1, jiggle)
  ELSE collideForce(order, next, radius, strength, iterations - 1, jiggle)

collideForce(order, nm, radius, strength, iterations, jiggle) ==
  IF iterations = 0 THEN nm
  ELSE forceFrom(order, nm, collideNodes(order, nm, 1, radius, strength, jiggle),
                 radius, strength, iterations, jiggle)

\* createCollideForce: radius per level, CONFIG.COLLISION_STRENGTH, 3 iterations
createCollideForce(order, nm, jiggle) ==
  collideForce(order, nm, [id \in DOMAIN nm |-> COLLISION_RADII(nm[id].level)],
               COLLISION_STRENGTH, 3, jiggle)

\* a variant that moves pinned nodes like free ones
integrateUnpinned(nm, velocityDecay) ==
  [id \in DOMAIN nm |->
     [nm[id] EXCEPT !.vx = TruncDiv(nm[id].vx * (1000 - velocityDecay), 1000),
                    !.x = @ + TruncDiv(nm[id].vx * (1000 - velocityDecay), 1000),
                    !.vy = TruncDiv(nm[id].vy * (1000 - velocityDecay), 1000),
                    !.y = @ + TruncDiv(nm[id].vy * (1000 - velocityDecay), 1000)]]

\* the end of d3's tick(): velocities decay and move the free nodes
integrate(nm, velocityDecay) ==
  [id \in DOMAIN nm |->
     LET n == nm[id]
         vx == TruncDiv(n.vx * (1000 - velocityDecay), 1000)
         vy == TruncDiv(n.vy * (1000 - velocityDecay), 1000)
     IN  [n EXCEPT !.vx = IF n.fx = <<>> THEN vx ELSE 0,
                   !.x = IF n.fx = <<>> THEN n.x + vx ELSE n.fx[1],
                   !.vy = IF n.fy = <<>> THEN vy ELSE 0,
                   !.y = IF n.fy = <<>> THEN n.y + vy ELSE n.fy[1]]]

\* one tick of this.simulation: sectorConstraint, collide, anchor, integrate
simulationTick(order, nm, jiggle) ==
  integrate(
    anchorForce(order,
      createCollideForce(order, sectorConstraintForce(order, nm, 1), jiggle), 1),
    VELOCITY_DECAY)

\* alpha += (alphaTarget - alpha) * alphaDecay, alphaTarget = 0
alphaStep(alpha) == alpha - RoundDiv(alpha * ALPHA_DECAY, 1000)

(***************************************************************************)
(* Arrangement commands                                                    *)
(***************************************************************************)
\* the ring positions arrangeChildrenCircular computes: <<id, x, y, angle>>
RECURSIVE ringPositions(_, _, _, _, _, _, _, _)
ringPositions(remainingChildren, ringIndex, parentX, parentY, baseRingRadius, ringSpacing, minChildSpacing10, acc) ==
  IF Len(remainingChildren) = 0 THEN acc
  ELSE LET ringRadius == baseRingRadius + ringIndex * ringSpacing
           \* 2 * Math.PI * ringRadius / minChildSpacing, rounded down (PI as 355/113)
           nodesPerRing == Max(1, (2 * 355 * ringRadius * 10) \div (113 * minChildSpacing10))
           nodesInThisRing == Min(nodesPerRing, Len(remainingChildren))
           childrenForRing == SubSeq(remainingChildren, 1, nodesInThisRing)
           angleStep == Rat(360, Len(childrenForRing))
           ringOffset == RMul(RInt(ringIndex), RDiv(angleStep, RInt(2)))
           startAngle == RAdd(RInt(-90), ringOffset)
           placed == [index \in 1..nodesInThisRing |->
                        LET angle == RAdd(startAngle, RMul(RInt(index - 1), angleStep))
                        IN  [id |-> childrenForRing[index],
                             x |-> parentX + PolarX(angle, Px(ringRadius)),
                             y |-> parentY + PolarY(angle, Px(ringRadius)),
                             angle |-> angle]]
       IN  ringPositions(
             SubSeq(remainingChildren, nodesInThisRing + 1, Len(remainingChildren)),
             ringIndex + 1, parentX, parentY, baseRingRadius, ringSpacing,
             minChildSpacing10, acc \o placed)

\* the fan positions arrangeChildrenInFanAwayFromGrandparent computes
fanPositions(nm, parent, childIds, ringRadius) ==
  LET parentX == nm[parent].x
      parentY == nm[parent].y
      hasGrandparent == nm[parent].parentId \in DOMAIN nm
      grandparentX == IF hasGrandparent THEN nm[nm[parent].parentId].x ELSE 0
      grandparentY == IF hasGrandparent THEN nm[nm[parent].parentId].y ELSE 0
      outwardAngle == RInt(Atan2Deg(parentY - grandparentY, parentX - grandparentX))
      \* Math.PI * 0.56 and Math.PI / 3
      anglePerChild == IF Len(childIds) = 2 THEN Rat(1008, 10) ELSE RInt(60)
      totalFanAngle == RMul(RInt(Len(childIds) - 1), anglePerChild)
      startAngle == RSub(outwardAngle, RDiv(totalFanAngle, RInt(2)))
      actualAngleStep == IF Len(childIds) > 1
                         THEN RDiv(totalFanAngle, RInt(Len(childIds) - 1))
                         ELSE RInt(0)
  IN  [index \in 1..Len(childIds) |->
         LET angle == IF Len(childIds) = 1 THEN outwardAngle
                      ELSE RAdd(startAngle, RMul(RInt(index - 1), actualAngleStep))
         IN  [id |-> childIds[index],
              x |-> parentX + PolarX(angle, Px(ringRadius)),
              y |-> parentY + PolarY(angle, Px(ringRadius)),
              angle |-> angle]]

\* arrangeGrandchildrenOutward and applyPositionsAndArrangeGrandchildren work
\* on the pair s = [nm |-> nodeMap, up |-> userPositions]
\* a variant that moves the node and writes nothing into the store
StorePositionTransient(s, id, x, y) ==
  [nm |-> [s.nm EXCEPT ![id].x = x, ![id].y = y, ![id].idealX = x, ![id].idealY = y],
   up |-> s.up]

StorePosition(s, id, x, y) ==
  [nm |-> [s.nm EXCEPT ![id].x = x, ![id].y = y, ![id].idealX = x, ![id].idealY = y],
   up |-> [k \in DOMAIN s.up \cup {id} |-> IF k = id THEN <<x, y>> ELSE s.up[k]]]

RECURSIVE arrangeGrandchildrenOutward(_, _, _)
RECURSIVE arrangeGrandchildLoop(_, _, _, _)
arrangeGrandchildrenOutward(s, childNode, outwardAngle) ==
  IF Len(s.nm[childNode].children) = 0 THEN s
  ELSE arrangeGrandchildLoop(s, childNode, outwardAngle, 1)

arrangeGrandchildLoop(s, childNode, outwardAngle, i) ==
  LET grandchildren == s.nm[childNode].children
      count == Len(grandchildren)
      distance == COLLISION_RADII(s.nm[childNode].level)
                    + COLLISION_RADII(s.nm[childNode].level + 1) + 2
      \* Math.min(Math.PI * 0.8, count * 0.3) in degrees
      totalFanAngle == IF RLt(RInt(144), Rat(count * 6102, 355)) THEN RInt(144)
                       ELSE Rat(count * 6102, 355)
      angleStep == IF count > 1 THEN RDiv(totalFanAngle, RInt(count - 1)) ELSE RInt(0)
      startAngle == RSub(outwardAngle, RDiv(totalFanAngle, RInt(2)))
      angle == IF count = 1 THEN outwardAngle
               ELSE RAdd(startAngle, RMul(RInt(i - 1), angleStep))
      grandchild == grandchildren[i]
      newX == s.nm[childNode].x + PolarX(angle, Px(distance))
      newY == s.nm[childNode].y + PolarY(angle, Px(distance))
  IN  IF i > count THEN s
      ELSE arrangeGrandchildLoop(
             arrangeGrandchildrenOutward(StorePosition(s, grandchild, newX, newY),
                                         grandchild, angle),
             childNode, outwardAngle, i + 1)

RECURSIVE applyPositionsAndArrangeGrandchildren(_, _, _)
applyPositionsAndArrangeGrandchildren(s, positions, i) ==
  IF i > Len(positions) THEN s
  ELSE LET pos == positions[i]
       IN  IF pos.id \notin DOMAIN s.nm
           THEN applyPositionsAndArrangeGrandchildren(s, positions, i + 1)
           ELSE applyPositionsAndArrangeGrandchildren(
                  arrangeGrandchildrenOutward(StorePosition(s, pos.id, pos.x, pos.y),
                                              pos.id, pos.angle),
                  positions, i + 1)

\* the node map and the store after arrangeChildrenCircular(parentId, childIds)
arrangeChildrenCircular(nm, up, parentId, childIds) ==
  LET parentLevel == nm[parentId].level
      childRadius == COLLISION_RADII(parentLevel + 1)
      parentRadius == COLLISION_RADII(parentLevel)
      baseRingRadius == parentRadius + childRadius + 2
      \* childRadius * 1.6 or childRadius * 2 + 20, in tenths
      minChildSpacing10 == IF parentLevel = 1 THEN childRadius * 16
                           ELSE (childRadius * 2 + 20) * 10
      ringSpacing == childRadius + 10
      positions ==
        IF (parentLevel = 1 \/ parentLevel = 2) /\ Len(childIds) < 4
        THEN fanPositions(nm, parentId, childIds, baseRingRadius)
        ELSE ringPositions(childIds, 0, nm[parentId].x, nm[parentId].y,
                           baseRingRadius, ringSpacing, minChildSpacing10, <<>>)
  IN  IF parentId \notin DOMAIN nm \/ Len(childIds) = 0
      THEN [nm |-> nm, up |-> up]
      ELSE applyPositionsAndArrangeGrandchildren([nm |-> nm, up |-> up], positions, 1)

(***************************************************************************)
(* Focus mode                                                              *)
(***************************************************************************)
\* AppComponent.findPathToNode: the ids from the root down to targetId
RECURSIVE findPathToNode(_, _)
findPathToNode(tree, targetId) ==
  IF targetId = RootId THEN <<RootId>>
  ELSE LET parent == CHOOSE p \in DOMAIN tree : targetId \in Range(tree[p])
       IN  Append(findPathToNode(tree, parent), targetId)

\* AppComponent.calculateChildRadius, in pixels (PI as 355/113)
calculateChildRadius(childCount) ==
  IF childCount = 0 THEN 100
  ELSE IF childCount <= 5 THEN 140 + childCount * 30
  ELSE Max(200, (childCount * 90 * 113) \div (2 * 355))

\* the angle of child index (from 0) of count children around the focus
focusChildAngle(index, count) ==
  IF count <= 5
  THEN IF count = 1 THEN RInt(0)
       ELSE RAdd(RInt(-90), RMul(RInt(index), Rat(180, count - 1)))
  ELSE LET angle == RMul(RInt(index), Rat(320, count))
       IN  IF RLe(RInt(160), angle) THEN RAdd(angle, RInt(40)) ELSE angle

\* AppComponent.calculateFocusModeLayout: the arguments it hands to
\* applyFocusModeWithCollisionAvoidance
calculateFocusModeLayout(tree, expandedIds, focusId) ==
  LET path == findPathToNode(tree, focusId)
      level == Len(path) - 1
      children == tree[focusId]
      count == Len(children)
      CHILD_RADIUS == calculateChildRadius(count)
      L1_TO_FOCUS_SPACING == Max(400, CHILD_RADIUS + 180)
      L0_TO_L1_SPACING == 350
      l0X == -(L0_TO_L1_SPACING + L1_TO_FOCUS_SPACING)
      showChildren == count > 0 /\ focusId \in expandedIds
      chain == IF level = 2 THEN {path[2]}
               ELSE IF level >= 3 THEN {path[2], path[3]} ELSE {}
      kids == IF showChildren THEN Range(children) ELSE {}
      ChildIndex(c) == CHOOSE i \in 1..count : children[i] = c
  IN  [positions |->
         [id \in {RootId, focusId} \cup chain \cup kids |->
            IF id \in kids
            THEN <<PolarX(focusChildAngle(ChildIndex(id) - 1, count), Px(CHILD_RADIUS)),
                   PolarY(focusChildAngle(ChildIndex(id) - 1, count), Px(CHILD_RADIUS))>>
            ELSE IF level >= 3 /\ id = path[3] THEN <<Px(-L1_TO_FOCUS_SPACING), 0>>
            ELSE IF level >= 3 /\ id = path[2] THEN <<Px(l0X + L0_TO_L1_SPACING), 0>>
            ELSE IF level = 2 /\ id = path[2] THEN <<Px(-L1_TO_FOCUS_SPACING), 0>>
            ELSE IF id = focusId THEN <<0, 0>>
            ELSE <<Px(l0X), 0>>],
       focusChildIds |-> kids]

\* the collision burst: simulation.tick(100) of a collide-only simulation.
\* A tick that changes nothing ends the loop: all later ticks change nothing.
RECURSIVE focusBurst(_, _, _, _, _)
\* one tick of the burst, none once a tick has changed nothing
focusTick(order, s, radius, next) ==
  IF next = s.nm THEN [nm |-> s.nm, still |-> TRUE] ELSE [nm |-> next, still |-> FALSE]

\* the ticks that are left go on from what the ones before left
focusRest(order, s, radius, ticks, jiggle) ==
  IF s.still THEN s ELSE focusBurst(order, s, radius, ticks, jiggle)

\* the next ticks of the burst, taken as two runs one after the other; s
\* holds the node map and whether a tick has left it as it was
focusBurst(order, s, radius, ticks, jiggle) ==
  IF ticks = 1
  THEN focusTick(order, s, radius,
                 integrate(collideForce(order, s.nm, radius, 1000, 5, jiggle), 300))
  ELSE focusRest(order, focusBurst(order, s, radius, ticks \div 2, jiggle), radius,
                 ticks - ticks \div 2, jiggle)

\* the node map applyFocusModeWithCollisionAvoidance leaves
applyFocusModeWithCollisionAvoidance(order, nm, fixedPositions, focusChildIds, jiggle) ==
  LET fixedNodeIds == DOMAIN fixedPositions \cup focusChildIds
      fixed1 == [id \in DOMAIN nm |->
                   IF id \in DOMAIN fixedPositions
                   THEN [nm[id] EXCEPT !.x = fixedPositions[id][1],
                                       !.y = fixedPositions[id][2],
                                       !.fx = <<fixedPositions[id][1]>>,
                                       !.fy = <<fixedPositions[id][2]>>]
                   ELSE nm[id]]
      fixed2 == [id \in DOMAIN nm |->
                   IF id \in focusChildIds
                   THEN [fixed1[id] EXCEPT !.fx = <<fixed1[id].x>>, !.fy = <<fixed1[id].y>>]
                   ELSE fixed1[id]]
      radius == [id \in DOMAIN nm |->
                   COLLISION_RADII(nm[id].level)
                     + (IF id \in fixedNodeIds THEN 80 ELSE 20)]
      moved == focusBurst(order, [nm |-> initializeNodes(fixed2), still |-> FALSE],
                         radius, 100, jiggle).nm
  IN  [id \in DOMAIN nm |->
         IF moved[id].level > 0 THEN [moved[id] EXCEPT !.fx = <<>>, !.fy = <<>>]
         ELSE moved[id]]

\* the node map arrangeChildrenCircularFocusMode leaves
arrangeChildrenCircularFocusMode(nm, parentId, childIds) ==
  LET count == Len(childIds)
      childRadius == COLLISION_RADII(nm[parentId].level + 1)
      parentRadius == COLLISION_RADII(nm[parentId].level)
      radius == IF count <= 5 THEN parentRadius + childRadius + 40 + count * 25
                ELSE Max(parentRadius + childRadius + 60,
                         (count * 90 * 113) \div (2 * 355))
      ChildIndex(c) == CHOOSE i \in 1..count : childIds[i] = c
  IN  IF parentId \notin DOMAIN nm \/ count = 0 THEN nm
      ELSE [id \in DOMAIN nm |->
              IF id \in Range(childIds)
              THEN [nm[id] EXCEPT
                      !.x = nm[parentId].x
                              + PolarX(focusChildAngle(ChildIndex(id) - 1, count), Px(radius)),
                      !.y = nm[parentId].y
                              + PolarY(focusChildAngle(ChildIndex(id) - 1, count), Px(radius))]
              ELSE nm[id]]

\* the node map resetToOriginalPositions leaves
resetToOriginalPositions(nm, up) ==
  [id \in DOMAIN nm |->
     IF nm[id].level = 0 THEN nm[id]
     ELSE IF id \in DOMAIN up
     THEN [nm[id] EXCEPT !.x = up[id][1], !.y = up[id][2]]
     ELSE [nm[id] EXCEPT !.x = nm[id].idealX, !.y = nm[id].idealY]]

(***************************************************************************)
(* Drag operations                                                         *)
(***************************************************************************)
RECURSIVE Descendants(_, _)
RECURSIVE DescendantsOfAll(_, _, _)
\* the nodes moveNodeAndDescendants / saveDescendantPositions reach below id
Descendants(nm, id) == DescendantsOfAll(nm, nm[id].children, 1)

DescendantsOfAll(nm, children, i) ==
  IF i > Len(children) THEN {}
  ELSE {children[i]} \cup Descendants(nm, children[i])
         \cup DescendantsOfAll(nm, children, i + 1)

\* a variant that moves the node and leaves its descendants behind
setNodePositionAlone(nm, nodeId, x, y) ==
  IF nodeId \notin DOMAIN nm THEN nm
  ELSE IF nm[nodeId].level = 0 THEN nm
  ELSE [nm EXCEPT ![nodeId].x = x, ![nodeId].y = y]

\* the node map setNodePosition(nodeId, x, y) leaves (moveNodeAndDescendants)
setNodePosition(nm, nodeId, x, y) ==
  IF nodeId \notin DOMAIN nm THEN nm
  ELSE IF nm[nodeId].level = 0 THEN nm
  ELSE LET dx == x - nm[nodeId].x
           dy == y - nm[nodeId].y
           moved == {nodeId} \cup Descendants(nm, nodeId)
       IN  [id \in DOMAIN nm |->
              IF id \in moved THEN [nm[id] EXCEPT !.x = @ + dx, !.y = @ + dy]
              ELSE nm[id]]

\* the node map and the store releaseNode(nodeId) leaves (saveDescendantPositions)
releaseNode(nm, up, nodeId) ==
  IF nodeId \notin DOMAIN nm THEN [nm |-> nm, up |-> up]
  ELSE IF nm[nodeId].level = 0 THEN [nm |-> nm, up |-> up]
  ELSE LET saved == {nodeId} \cup Descendants(nm, nodeId)
       IN  [nm |-> [id \in DOMAIN nm |->
                      IF id = nodeId
                      THEN [nm[id] EXCEPT !.fx = <<>>, !.fy = <<>>,
                                          !.idealX = nm[id].x, !.idealY = nm[id].y]
                      ELSE IF id \in saved
                      THEN [nm[id] EXCEPT !.idealX = nm[id].x, !.idealY = nm[id].y]
                      ELSE nm[id]],
            up |-> [id \in DOMAIN up \cup saved |->
                      IF id \in saved THEN <<nm[id].x, nm[id].y>> ELSE up[id]]]

(***************************************************************************)
(* Operations                                                              *)
(***************************************************************************)
\* every operation but a tick counts as a step; lastCall names the call
Called(op, id, repeated) ==
  /\ steps' = steps + 1
  /\ lastCall' = [op |-> op, id |-> id, ticked |-> FALSE, repeated |-> repeated]

Publish(order, nm) == nodePositions' = updatePositionSignal(order, nm)

\* the node map an operation leaves, followed by updatePositionSignal()
Moved(nm) == nodeMap' = nm /\ Publish(layoutNodes, nm)

\* the node map and the store an operation leaves; the ids released by it,
\* and those released before whose entry is still the one of their release
Stored(s, releasedIds) ==
  /\ nodeMap' = s.nm
  /\ userPositions' = s.up
  /\ released' = {id \in released \cap DOMAIN s.up : s.up[id] = userPositions[id]}
                    \cup releasedIds

\* simulation.alpha(a).restart()
Restarted(sim, a) == [sim EXCEPT !.alpha = a, !.running = TRUE]

SetLayoutMode(mode) ==
  /\ Called("setLayoutMode", mode, FALSE)
  /\ layoutMode' = mode
  /\ UNCHANGED <<simulation, layoutNodes, nodeMap, userPositions, nodePositions,
                 isSettling, rootNode, expandedNodes, staticConverged, released>>

\* startSimulation: the root is fixed, the simulation is created and started
startSimulation(order, nm) ==
  /\ nodeMap' = initializeNodes(fixLevel0Node(nm))
  /\ simulation' = [exists |-> TRUE, running |-> TRUE, alpha |-> 1000,
                    nodes |-> "current", forces |-> "current"]
  /\ isSettling' = TRUE
  /\ UNCHANGED <<nodePositions, staticConverged>>

\* the end of applyStaticLayout: the positions are published
placeStatic(order, done) ==
  /\ nodeMap' = done.nm
  /\ staticConverged' = done.converged
  /\ simulation' = NoSimulation
  /\ Publish(order, done.nm)
  /\ isSettling' = FALSE

\* initSimulation after the four layout phases: the mode's placement
placeFresh(fresh) ==
  /\ layoutNodes' = fresh.layoutNodes
  /\ IF layoutMode = "static"
     THEN placeStatic(fresh.layoutNodes,
                      applyStaticLayout(fresh.layoutNodes,
                                        initializeActualPositions(fresh.nodeMap),
                                        userPositions))
     ELSE startSimulation(fresh.layoutNodes, initializeActualPositions(fresh.nodeMap))

\* a variant whose destroy step also forgets the stored positions
initSimulationForgetting(tree, expandedIds) ==
  /\ placeFresh(FreshLayout(tree, expandedIds))
  /\ userPositions' = EmptyMap
  /\ released' = {}
  /\ UNCHANGED layoutMode

\* initSimulation: destroy, the four layout phases, then the mode's placement
initSimulation(tree, expandedIds) ==
  /\ placeFresh(FreshLayout(tree, expandedIds))
  /\ UNCHANGED <<layoutMode, userPositions, released>>

InitSimulation(tree, expandedIds) ==
  /\ Called("initSimulation", "", FALSE)
  /\ rootNode' = tree
  /\ expandedNodes' = expandedIds
  /\ initSimulation(tree, expandedIds)

\* the positions updateNodes gives the rebuilt nodes:
\* userPositions > oldPositions > idealPosition
restorePositions(nm, up, oldPositions) ==
  [id \in DOMAIN nm |->
     IF nm[id].level = 0 THEN nm[id]
     ELSE IF id \in DOMAIN up
     THEN [nm[id] EXCEPT !.x = up[id][1], !.y = up[id][2],
                         !.idealX = up[id][1], !.idealY = up[id][2]]
     ELSE IF id \in DOMAIN oldPositions
     THEN [nm[id] EXCEPT !.x = oldPositions[id][1], !.y = oldPositions[id][2]]
     ELSE [nm[id] EXCEPT !.x = nm[id].idealX, !.y = nm[id].idealY]]

\* buildLayoutTree inside updateNodes: layoutNodes holds new objects, the
\* simulation still holds the nodes and forces of the graph before
rebuiltUnder(sim) == [sim EXCEPT !.nodes = "stale", !.forces = "stale"]

\* a variant that leaves the simulation on the nodes and forces it had
rebindSkipped(sim) == sim

\* simulation.nodes(layoutNodes) and the three force(...) calls of updateNodes
rebindSimulation(sim) == [sim EXCEPT !.nodes = "current", !.forces = "current"]

\* updateNodes on a running simulation, after the rebuild
placeRebuilt(fresh, oldPositions) ==
  /\ layoutNodes' = fresh.layoutNodes
  /\ nodeMap' = initializeNodes(fixLevel0Node(
                   restorePositions(fresh.nodeMap, userPositions, oldPositions)))
  /\ simulation' = Restarted(rebindSimulation(rebuiltUnder(simulation)), 500)
  /\ isSettling' = TRUE
  /\ UNCHANGED <<layoutMode, userPositions, nodePositions, staticConverged, released>>

updateNodes(tree, expandedIds) ==
  IF layoutMode = "static" \/ ~simulation.exists
  THEN initSimulation(tree, expandedIds)
  ELSE placeRebuilt(FreshLayout(tree, expandedIds),
                    [id \in DOMAIN nodeMap |-> <<nodeMap[id].x, nodeMap[id].y>>])

\* repeated: a static updateNodes directly after a static updateNodes with
\* the same tree and the same expanded set
UpdateNodes(tree, expandedIds) ==
  /\ Called("updateNodes", "",
            /\ lastCall.op = "updateNodes"
            /\ layoutMode = "static"
            /\ tree = rootNode
            /\ expandedIds = expandedNodes)
  /\ rootNode' = tree
  /\ expandedNodes' = expandedIds
  /\ updateNodes(tree, expandedIds)

\* the velocity impulses wobble can add: (Math.random() - 0.5) * 8 per axis
WobbleImpulses == {<<-39, 20>>, <<39, -20>>}

wobble(impulse) ==
  /\ simulation.exists
  /\ nodeMap' = [id \in DOMAIN nodeMap |->
                   IF nodeMap[id].level # 0
                   THEN [nodeMap[id] EXCEPT !.vx = @ + impulse[1],
                                            !.vy = @ + impulse[2]]
                   ELSE nodeMap[id]]
  /\ isSettling' = TRUE
  /\ simulation' = Restarted(simulation, 300)

Wobble(impulse) ==
  /\ Called("wobble", "", FALSE)
  /\ wobble(impulse)
  /\ UNCHANGED <<layoutMode, layoutNodes, userPositions, nodePositions, rootNode,
                 expandedNodes, staticConverged, released>>

destroy ==
  /\ simulation' = NoSimulation
  /\ layoutNodes' = <<>>
  /\ nodeMap' = EmptyMap

Destroy ==
  /\ Called("destroy", "", FALSE)
  /\ destroy
  /\ UNCHANGED <<layoutMode, userPositions, nodePositions, isSettling, rootNode,
                 expandedNodes, staticConverged, released>>

ResetUserPositions ==
  /\ Called("resetUserPositions", "", FALSE)
  /\ userPositions' = EmptyMap
  /\ released' = {}
  /\ UNCHANGED <<layoutMode, simulation, layoutNodes, nodeMap, nodePositions,
                 isSettling, rootNode, expandedNodes, staticConverged>>

resetNodePosition(nodeId) ==
  /\ userPositions' = [id \in DOMAIN userPositions \ {nodeId} |-> userPositions[id]]
  /\ IF nodeId \in DOMAIN nodeMap
     THEN Moved([nodeMap EXCEPT ![nodeId].x = nodeMap[nodeId].idealX,
                                ![nodeId].y = nodeMap[nodeId].idealY,
                                ![nodeId].fx = <<>>,
                                ![nodeId].fy = <<>>])
     ELSE UNCHANGED <<nodeMap, nodePositions>>

ResetNodePosition(nodeId) ==
  /\ Called("resetNodePosition", nodeId, FALSE)
  /\ resetNodePosition(nodeId)
  /\ released' = released \ {nodeId}
  /\ UNCHANGED <<layoutMode, simulation, layoutNodes, isSettling, rootNode,
                 expandedNodes, staticConverged>>

\* the early return of fixNode, unfixNode, setNodePosition and releaseNode
Draggable(nodeId) == nodeId \in DOMAIN nodeMap /\ nodeMap[nodeId].level # 0

\* a variant that pins the node and lets the simulation run on
fixNodeRunning(nodeId) ==
  /\ Draggable(nodeId)
  /\ nodeMap' = [nodeMap EXCEPT ![nodeId].fx = <<nodeMap[nodeId].x>>,
                                ![nodeId].fy = <<nodeMap[nodeId].y>>]
  /\ UNCHANGED <<simulation, isSettling>>

fixNode(nodeId) ==
  /\ Draggable(nodeId)
  /\ nodeMap' = [nodeMap EXCEPT ![nodeId].fx = <<nodeMap[nodeId].x>>,
                                ![nodeId].fy = <<nodeMap[nodeId].y>>]
  /\ IF simulation.exists
     THEN simulation' = [simulation EXCEPT !.running = FALSE]
            /\ isSettling' = FALSE
     ELSE UNCHANGED <<simulation, isSettling>>

FixNode(nodeId) ==
  /\ Called("fixNode", nodeId, FALSE)
  /\ fixNode(nodeId)
  /\ UNCHANGED <<layoutMode, layoutNodes, userPositions, nodePositions, rootNode,
                 expandedNodes, staticConverged, released>>

unfixNode(nodeId) ==
  /\ Draggable(nodeId)
  /\ nodeMap' = [nodeMap EXCEPT ![nodeId].fx = <<>>, ![nodeId].fy = <<>>]

\* a variant that ends a cancelled drag the way releaseNode ends a drop
UnfixNodeCommitting(nodeId) ==
  /\ Called("unfixNode", nodeId, FALSE)
  /\ Draggable(nodeId)
  /\ Stored(releaseNode(nodeMap, userPositions, nodeId), {nodeId})
  /\ UNCHANGED <<layoutMode, simulation, layoutNodes, nodePositions, isSettling,
                 rootNode, expandedNodes, staticConverged>>

UnfixNode(nodeId) ==
  /\ Called("unfixNode", nodeId, FALSE)
  /\ unfixNode(nodeId)
  /\ UNCHANGED <<layoutMode, simulation, layoutNodes, userPositions, nodePositions,
                 isSettling, rootNode, expandedNodes, staticConverged, released>>

\* the drop points of a drag, in pixels
DragTargets == {<<430, 0>>, <<900, -600>>}

SetNodePosition(nodeId, pos) ==
  /\ Called("setNodePosition", nodeId, FALSE)
  /\ Draggable(nodeId)
  /\ Moved(setNodePosition(nodeMap, nodeId, Px(pos[1]), Px(pos[2])))
  /\ UNCHANGED <<layoutMode, simulation, layoutNodes, userPositions, isSettling,
                 rootNode, expandedNodes, staticConverged, released>>

ReleaseNode(nodeId) ==
  /\ Called("releaseNode", nodeId, FALSE)
  /\ Draggable(nodeId)
  /\ Stored(releaseNode(nodeMap, userPositions, nodeId), {nodeId})
  /\ IF simulation.exists
     THEN isSettling' = TRUE /\ simulation' = Restarted(simulation, 300)
     ELSE UNCHANGED <<isSettling, simulation>>
  /\ UNCHANGED <<layoutMode, layoutNodes, nodePositions, rootNode, expandedNodes,
                 staticConverged>>

\* the early return of both arrangement commands
Arrangeable(parentId) ==
  /\ parentId \in DOMAIN nodeMap
  /\ parentId \in DOMAIN rootNode
  /\ Len(rootNode[parentId]) > 0

\* AppComponent.arrangeChildrenCircular outside focus mode: the child ids
\* are the node's children in the source tree
ArrangeChildrenCircular(parentId) ==
  /\ Called("arrangeChildrenCircular", parentId, FALSE)
  /\ Arrangeable(parentId)
  /\ Stored(arrangeChildrenCircular(nodeMap, userPositions, parentId,
                                    rootNode[parentId]), {})
  /\ Publish(layoutNodes, nodeMap')
  /\ UNCHANGED <<layoutMode, simulation, layoutNodes, isSettling, rootNode,
                 expandedNodes, staticConverged>>

ArrangeChildrenCircularFocusMode(parentId) ==
  /\ Called("arrangeChildrenCircularFocusMode", parentId, FALSE)
  /\ Arrangeable(parentId)
  /\ Moved(arrangeChildrenCircularFocusMode(nodeMap, parentId, rootNode[parentId]))
  /\ UNCHANGED <<layoutMode, simulation, layoutNodes, userPositions, isSettling,
                 rootNode, expandedNodes, staticConverged, released>>

\* the last call of calculateFocusModeLayout, on the positions it computed
focusModeLayout(args, jiggle) ==
  applyFocusModeWithCollisionAvoidance(layoutNodes, nodeMap, args.positions,
                                       args.focusChildIds, jiggle)

\* AppComponent.calculateFocusModeLayout for the focused node
CalculateFocusModeLayout(focusId, jiggle) ==
  /\ Called("applyFocusModeWithCollisionAvoidance", focusId, FALSE)
  /\ focusId \in DOMAIN nodeMap \ {RootId}
  /\ Moved(focusModeLayout(calculateFocusModeLayout(rootNode, expandedNodes, focusId),
                           jiggle))
  /\ UNCHANGED <<layoutMode, simulation, layoutNodes, userPositions, isSettling,
                 rootNode, expandedNodes, staticConverged, released>>

\* AppComponent.exitFocusMode
ResetToOriginalPositions ==
  /\ Called("resetToOriginalPositions", "", FALSE)
  /\ nodeMap # EmptyMap
  /\ Moved(resetToOriginalPositions(nodeMap, userPositions))
  /\ UNCHANGED <<layoutMode, simulation, layoutNodes, userPositions, isSettling,
                 rootNode, expandedNodes, staticConverged, released>>

\* the tick of a simulation that holds the current nodes and forces moves
\* them; one that holds the objects of an earlier graph moves those
tickNodes(jiggle) ==
  IF simulation.nodes = "current" /\ simulation.forces = "current"
  THEN simulationTick(layoutNodes, nodeMap, jiggle)
  ELSE nodeMap

\* a variant without the handler of the 'end' event
tickAlphaUnheard(alpha) ==
  /\ simulation' = [simulation EXCEPT !.alpha = alpha, !.running = ~(alpha < AlphaMin)]
  /\ isSettling' = isSettling

\* alpha after the tick; below alphaMin the timer stops and 'end' is emitted
tickAlpha(alpha) ==
  /\ simulation' = [simulation EXCEPT !.alpha = alpha, !.running = ~(alpha < AlphaMin)]
  /\ isSettling' = IF alpha < AlphaMin THEN FALSE ELSE isSettling

\* one callback of the simulation's timer: tick, the 'tick' event, and the
\* 'end' event when alpha has fallen below alphaMin
Tick(jiggle) ==
  /\ simulation.exists /\ simulation.running
  /\ Moved(tickNodes(jiggle))
  /\ tickAlpha(alphaStep(simulation.alpha))
  /\ lastCall' = [lastCall EXCEPT !.ticked = TRUE]
  /\ UNCHANGED <<layoutMode, layoutNodes, userPositions, rootNode, expandedNodes,
                 staticConverged, released, steps>>

(***************************************************************************)
(* Specification                                                           *)
(***************************************************************************)
Init ==
  /\ layoutMode = "static"
  /\ simulation = NoSimulation
  /\ layoutNodes = <<>>
  /\ nodeMap = EmptyMap
  /\ userPositions = EmptyMap
  /\ nodePositions = EmptyMap
  /\ isSettling = FALSE
  /\ rootNode \in Trees
  /\ expandedNodes = {}
  /\ staticConverged = FALSE
  /\ released = {}
  /\ lastCall = [op |-> "constructor", id |-> "", ticked |-> FALSE, repeated |-> FALSE]
  /\ steps = 0

\* the ids the operations are called with
CallIds == {"a1", "b"}

\* the expanded sets an update can pass: the current one, or one node toggled
Toggled(expandedIds, ids) ==
  {expandedIds} \cup {(expandedIds \ {id}) \cup ({id} \ expandedIds) : id \in ids}

\* the service under every operation, MaxSteps calls deep
Next ==
  \/ steps < MaxSteps
       /\ \E mode \in {"static", "simulation"} \ {layoutMode} : SetLayoutMode(mode)
  \/ steps < MaxSteps
       /\ \E tree \in Trees : InitSimulation(tree, expandedNodes)
  \/ steps < MaxSteps
       /\ \E expandedIds \in Toggled(expandedNodes, Expandable) :
            UpdateNodes(rootNode, expandedIds)
  \/ steps < MaxSteps /\ \E impulse \in WobbleImpulses : Wobble(impulse)
  \/ steps < MaxSteps /\ Destroy
  \/ steps < MaxSteps /\ ResetUserPositions
  \/ steps < MaxSteps /\ \E id \in CallIds : ResetNodePosition(id)
  \/ steps < MaxSteps /\ \E id \in CallIds : FixNode(id)
  \/ steps < MaxSteps /\ \E id \in CallIds : UnfixNode(id)
  \/ steps < MaxSteps
       /\ \E id \in CallIds, pos \in DragTargets : SetNodePosition(id, pos)
  \/ steps < MaxSteps /\ \E id \in CallIds : ReleaseNode(id)
  \/ steps < MaxSteps /\ \E id \in CallIds : ArrangeChildrenCircular(id)
  \/ steps < MaxSteps /\ \E id \in CallIds : ArrangeChildrenCircularFocusMode(id)
  \/ steps < MaxSteps
       /\ \E id \in CallIds, jiggle \in {-1, 1} : CalculateFocusModeLayout(id, jiggle)
  \/ steps < MaxSteps /\ ResetToOriginalPositions
  \/ \E jiggle \in {-1, 1} : Tick(jiggle)

Spec == Init /\ [][Next]_vars

(***************************************************************************)
(* Drags and rebuilds: one node is dragged, released and reset while the   *)
(* layout is rebuilt in both modes                                         *)
(***************************************************************************)
MaxDragSteps == 5

DragNext ==
  \/ steps < MaxDragSteps
       /\ \E mode \in {"static", "simulation"} \ {layoutMode} : SetLayoutMode(mode)
  \/ steps < MaxDragSteps /\ InitSimulation(rootNode, expandedNodes)
  \/ steps < MaxDragSteps
       /\ \E expandedIds \in Toggled(expandedNodes, {"a"}) :
            UpdateNodes(rootNode, expandedIds)
  \/ steps < MaxDragSteps /\ \E pos \in DragTargets : SetNodePosition("b", pos)
  \/ steps < MaxDragSteps /\ ReleaseNode("b")
  \/ steps < MaxDragSteps /\ ResetNodePosition("b")
  \/ \E jiggle \in {-1, 1} : Tick(jiggle)

DragSpec == Init /\ [][DragNext]_vars

(***************************************************************************)
(* The layout phases as functions of (tree, expanded set)                  *)
(***************************************************************************)
TreeC ==
  [id \in {"r", "a", "a1", "a2", "a3", "x"} |->
     CASE id = "r"  -> <<"a">>
       [] id = "a"  -> <<"a1", "a2", "a3">>
       [] id = "a1" -> <<"x">>
       [] OTHER     -> <<>>]

\* the light child comes before the heavy one
TreeD ==
  [id \in {"r", "a", "b", "c", "a1", "a2", "x", "y"} |->
     CASE id = "r"  -> <<"a", "b", "c">>
       [] id = "a"  -> <<"a2", "a1">>
       [] id = "a1" -> <<"x", "y">>
       [] OTHER     -> <<>>]

\* four level-1 nodes, the first with three leaf children
TreeF ==
  [id \in {"r", "a", "b", "c", "d", "a1", "a2", "a3"} |->
     CASE id = "r"  -> <<"a", "b", "c", "d">>
       [] id = "a"  -> <<"a1", "a2", "a3">>
       [] OTHER     -> <<>>]

PhaseInit ==
  /\ layoutMode = "static"
  /\ simulation = NoSimulation
  /\ layoutNodes = <<>>
  /\ nodeMap = EmptyMap
  /\ userPositions = EmptyMap
  /\ nodePositions = EmptyMap
  /\ isSettling = FALSE
  /\ rootNode \in {TreeA, TreeB, TreeC, TreeD, TreeF}
  /\ expandedNodes \in SUBSET Expandable
  /\ staticConverged = FALSE
  /\ released = {}
  /\ lastCall = [op |-> "constructor", id |-> "", ticked |-> FALSE, repeated |-> FALSE]
  /\ steps = 0

\* one phase: it runs after the phase before it and leaves the node map nm
Phase(before, op, nm) ==
  /\ lastCall.op = before
  /\ Called(op, "", FALSE)
  /\ nodeMap' = nm
  /\ UNCHANGED <<layoutMode, simulation, userPositions, nodePositions, isSettling,
                 rootNode, expandedNodes, staticConverged, released>>

BuildLayoutTree ==
  /\ Phase("constructor", "buildLayoutTree",
           buildLayoutTree(rootNode, expandedNodes).nodeMap)
  /\ layoutNodes' = buildLayoutTree(rootNode, expandedNodes).layoutNodes

AnalyzeSubtrees ==
  /\ Phase("buildLayoutTree", "analyzeSubtrees", analyzeSubtrees(nodeMap))
  /\ UNCHANGED layoutNodes

AssignSectors ==
  /\ Phase("analyzeSubtrees", "assignSectors", assignSectors(nodeMap))
  /\ UNCHANGED layoutNodes

CalculateIdealPositions ==
  /\ Phase("assignSectors", "calculateIdealPositions", calculateIdealPositions(nodeMap))
  /\ UNCHANGED layoutNodes

PhaseNext ==
  \/ BuildLayoutTree
  \/ AnalyzeSubtrees
  \/ AssignSectors
  \/ CalculateIdealPositions

PhaseSpec == PhaseInit /\ [][PhaseNext]_vars

(***************************************************************************)
(* A drag gesture on node a: mouse down (fixNode), mouse moves              *)
(* (setNodePosition), mouse up (releaseNode) or mouse leave (unfixNode),    *)
(* with the updateNodes calls that forceLayoutEffect makes when a delayed   *)
(* click or a collapse timer changes the expanded set                       *)
(***************************************************************************)
MaxGestureSteps == 5

GestureNext ==
  \/ steps < MaxGestureSteps
       /\ \E mode \in {"static", "simulation"} \ {layoutMode} : SetLayoutMode(mode)
  \/ steps < MaxGestureSteps
       /\ \E expandedIds \in Toggled(expandedNodes, {"a"}) :
            UpdateNodes(rootNode, expandedIds)
  \/ steps < MaxGestureSteps /\ FixNode("a")
  \/ steps < MaxGestureSteps /\ \E pos \in DragTargets : SetNodePosition("a", pos)
  \/ steps < MaxGestureSteps /\ ReleaseNode("a")
  \/ steps < MaxGestureSteps /\ UnfixNode("a")
  \/ \E jiggle \in {-1, 1} : Tick(jiggle)

GestureSpec == Init /\ [][GestureNext]_vars

(***************************************************************************)
(* Arrangement: the children of one node are arranged, outside and inside  *)
(* focus mode, in the static mode the application runs in                  *)
(***************************************************************************)
\* a level-1 node with seven children
TreeE ==
  [id \in {"r", "a", "b", "a1", "a2", "a3", "a4", "a5", "a6", "a7"} |->
     CASE id = "r"  -> <<"a", "b">>
       [] id = "a"  -> <<"a1", "a2", "a3", "a4", "a5", "a6", "a7">>
       [] OTHER     -> <<>>]

MaxArrangeSteps == 4

ArrangeNext ==
  \/ steps < MaxArrangeSteps
       /\ \E tree \in {TreeA, TreeE} : InitSimulation(tree, expandedNodes)
  \/ steps < MaxArrangeSteps
       /\ \E expandedIds \in Toggled(expandedNodes, {"a", "a1"}) :
            UpdateNodes(rootNode, expandedIds)
  \/ steps < MaxArrangeSteps /\ ArrangeChildrenCircular("a")
  \/ steps < MaxArrangeSteps /\ ArrangeChildrenCircularFocusMode("a")
  \/ steps < MaxArrangeSteps
       /\ \E jiggle \in {-1, 1} : CalculateFocusModeLayout("a", jiggle)

ArrangeSpec == Init /\ [][ArrangeNext]_vars

(***************************************************************************)
(* Settling: the operations that start or restart the simulation, and the  *)
(* timer of a running simulation, which keeps delivering ticks             *)
(***************************************************************************)
MaxSettleSteps == 4

SettleNext ==
  \/ steps < MaxSettleSteps
       /\ \E mode \in {"static", "simulation"} \ {layoutMode} : SetLayoutMode(mode)
  \/ steps < MaxSettleSteps /\ InitSimulation(rootNode, expandedNodes)
  \/ steps < MaxSettleSteps
       /\ \E expandedIds \in Toggled(expandedNodes, {"a"}) :
            UpdateNodes(rootNode, expandedIds)
  \/ steps < MaxSettleSteps /\ \E impulse \in WobbleImpulses : Wobble(impulse)
  \/ steps < MaxSettleSteps /\ ReleaseNode("a")
  \/ steps < MaxSettleSteps /\ Destroy
  \/ \E jiggle \in {-1, 1} : Tick(jiggle)

\* d3's timer calls back as long as the simulation runs: the steps of
\* SettleNext that leave steps alone are the Tick steps, and the timer's part
\* of Tick (alpha, the stop below alphaMin and the 'end' event) is what is
\* enabled while the simulation runs
SettleSpec ==
  /\ Init /\ [][SettleNext]_vars
  /\ WF_simulation(/\ simulation.exists /\ simulation.running
                   /\ tickAlpha(alphaStep(simulation.alpha))
                   /\ steps' = steps)

(***************************************************************************)
(* One pass of the static resolver's inner loop body on a graph that is    *)
(* one pair of nodes: nodeA = layoutNodes[0], nodeB = layoutNodes[1]       *)
(***************************************************************************)
\* the two nodes have ideal positions from a set of six points
PairInit ==
  /\ layoutMode = "static"
  /\ simulation = NoSimulation
  /\ layoutNodes \in {<<"r", "a">>, <<"r", "a1">>, <<"a", "a1">>, <<"a1", "a">>, <<"a", "b">>}
  /\ \E pa, pb \in {<<0, 0>>, <<Px(150), 0>>, <<Px(90), Px(120)>>, <<Px(-40), Px(-75)>>,
                   <<Px(137), Px(-61)>>, <<Px(400), Px(30)>>} :
       nodeMap = [id \in Range(layoutNodes) |->
                    [NewLayoutNode(id, CASE id = "r" -> 0 [] id = "a1" -> 2 [] OTHER -> 1,
                                   CASE id = "r" -> "null" [] id = "a1" -> "a" [] OTHER -> "r",
                                   <<>>)
                       EXCEPT !.idealX = IF id = "r" THEN 0
                                         ELSE IF id = layoutNodes[1] THEN pa[1] ELSE pb[1],
                              !.idealY = IF id = "r" THEN 0
                                         ELSE IF id = layoutNodes[1] THEN pa[2] ELSE pb[2]]]
  /\ \E fixedIds \in SUBSET (Range(layoutNodes) \ {"r"}) :
       userPositions = [id \in fixedIds |-> <<nodeMap[id].idealX, nodeMap[id].idealY>>]
  /\ nodePositions = EmptyMap
  /\ isSettling = FALSE
  /\ rootNode = TreeA
  /\ expandedNodes = {"a"}
  /\ staticConverged = FALSE
  /\ released = {}
  /\ lastCall = [op |-> "constructor", id |-> "", ticked |-> FALSE, repeated |-> FALSE]
  /\ steps = 0

\* the body of the inner loop for i = 0, j = 1
ResolvePair ==
  /\ lastCall.op = "constructor"
  /\ Called("resolvePair", "", FALSE)
  /\ nodeMap' = resolvePair(nodeMap, userPositions, layoutNodes[1], layoutNodes[2]).nm
  /\ staticConverged' = ~resolvePair(nodeMap, userPositions, layoutNodes[1], layoutNodes[2]).hit
  /\ UNCHANGED <<layoutMode, simulation, layoutNodes, userPositions, nodePositions,
                 isSettling, rootNode, expandedNodes, released>>

PairSpec == PairInit /\ [][ResolvePair]_vars

(***************************************************************************)
(* Focus mode: the layout is built with some nodes expanded, nodes are     *)
(* dragged and dropped, and a node at level 1, 2 or 3 is focused           *)
(***************************************************************************)
MaxFocusSteps == 6

\* ForceLayoutService.checkCollision: closer than the sum of the radii
checkCollision(nm, nodeId1, nodeId2) ==
  /\ nodeId1 \in DOMAIN nm
  /\ nodeId2 \in DOMAIN nm
  /\ (nm[nodeId1].x - nm[nodeId2].x) * (nm[nodeId1].x - nm[nodeId2].x)
       + (nm[nodeId1].y - nm[nodeId2].y) * (nm[nodeId1].y - nm[nodeId2].y)
     < Px(COLLISION_RADII(nm[nodeId1].level) + COLLISION_RADII(nm[nodeId2].level))
         * Px(COLLISION_RADII(nm[nodeId1].level) + COLLISION_RADII(nm[nodeId2].level))

\* AppComponent.hasCollisionWithChildren, over the children of the Node
hasCollisionWithChildren(id) ==
  \E child \in Range(rootNode[id]) : checkCollision(nodeMap, id, child)

\* AppComponent.isInFocusMode(): focus mode is entered by the focus layout
\* and not left here, and the focus layout is what moves the root off the
\* origin, where every rebuild puts it
isInFocusMode == RootId \in DOMAIN nodeMap /\ nodeMap[RootId].x # 0

\* onGlobalMouseUp / onTouchEnd at the end of a drag that moved the node
onGlobalMouseUp(id) ==
  /\ lastCall.op = "setNodePosition"
  /\ lastCall.id = id
  /\ IF nodeMap[id].level = 1 /\ hasCollisionWithChildren(id)
     THEN ResetNodePosition(id)
     ELSE IF isInFocusMode THEN UnfixNode(id) ELSE ReleaseNode(id)

FocusNext ==
  \/ steps < MaxFocusSteps /\ ~isInFocusMode
       /\ \E tree \in {TreeA, TreeE}, expandedIds \in {{}, {"a"}, {"a", "a1"}} :
            InitSimulation(tree, expandedIds)
  \/ steps < MaxFocusSteps /\ ~isInFocusMode
       /\ \E id \in {"a", "a1", "x"}, jiggle \in {-1, 1} :
            CalculateFocusModeLayout(id, jiggle)
  \/ steps < MaxFocusSteps
       /\ \E id \in {"a", "a1"} : SetNodePosition(id, <<900, -600>>)
  \/ steps < MaxFocusSteps
       /\ \E id \in {"a", "a1"} : onGlobalMouseUp(id)

FocusSpec == Init /\ [][FocusNext]_vars

(***************************************************************************)
(* Properties                                                              *)
(***************************************************************************)
\* C1: in every reachable state, after any sequence of operations, the
\* current position of the level-0 root node is (0, 0).
C1_RootAtOrigin ==
  RootId \in DOMAIN nodeMap => nodeMap[RootId].x = 0 /\ nodeMap[RootId].y = 0

\* the operation that ran last was a rebuild and no tick came after it
JustRebuilt == lastCall.op \in {"initSimulation", "updateNodes"} /\ ~lastCall.ticked

\* the current position of a node, as a point
PositionOf(id) == <<nodeMap[id].x, nodeMap[id].y>>

\* C2: a non-root node that was dragged and released is, after any later
\* updateNodes that keeps it visible and once the layout has settled, still
\* at the point of its release, in both layout modes.
C2_ReleasedNodeStays ==
  (lastCall.op = "updateNodes" /\ ~isSettling) =>
     \A id \in released \cap DOMAIN nodeMap : PositionOf(id) = userPositions[id]

\* C3: after every initSimulation or updateNodes, in both modes, each visible
\* non-root node with an entry in userPositions has that entry as its layout
\* target (idealX, idealY) and as its starting position.
C3_StoreEntryIsTarget ==
  JustRebuilt =>
     \A id \in DOMAIN userPositions \cap DOMAIN nodeMap :
        nodeMap[id].level # 0 =>
           /\ <<nodeMap[id].idealX, nodeMap[id].idealY>> = userPositions[id]
           /\ PositionOf(id) = userPositions[id]

SectorsAssigned == lastCall.op \in {"assignSectors", "calculateIdealPositions"}

\* C5: with n level-1 children, child i (from 0) has the sector
\* [-90 + i * 360 / n, -90 + (i + 1) * 360 / n] degrees, for every expanded
\* set of the tree.
C5_Level1SectorsFixed ==
  SectorsAssigned =>
     \A i \in 1..Len(nodeMap[RootId].children) :
        /\ nodeMap[nodeMap[RootId].children[i]].sectorStart
             = RAdd(RInt(-90), Rat(360 * (i - 1), Len(nodeMap[RootId].children)))
        /\ nodeMap[nodeMap[RootId].children[i]].sectorEnd
             = RAdd(RInt(-90), Rat(360 * i, Len(nodeMap[RootId].children)))

\* C5 witness: sectors were assigned for a tree with three level-1 nodes of
\* different weights, two levels expanded below the first
C5_Witness ==
  /\ lastCall.op = "assignSectors"
  /\ rootNode = TreeA
  /\ expandedNodes = {"a", "a1"}
  /\ nodeMap["a"].weight > nodeMap["c"].weight

\* C6: after assignSectors the sectors of the children of every visible
\* parent are disjoint and in the order of the children: the sector of a
\* child ends no later than the next child's begins, and every child's
\* sector begins before it ends.
C6_SiblingSectorsOrdered ==
  SectorsAssigned =>
     \A p \in DOMAIN nodeMap :
        /\ \A i \in 1..Len(nodeMap[p].children) :
              RLt(nodeMap[nodeMap[p].children[i]].sectorStart,
                  nodeMap[nodeMap[p].children[i]].sectorEnd)
        /\ \A i \in 1..(Len(nodeMap[p].children) - 1) :
              RLe(nodeMap[nodeMap[p].children[i]].sectorEnd,
                  nodeMap[nodeMap[p].children[i + 1]].sectorStart)

\* C6 witness: a parent below level 0 whose first child got the minimum
\* angle and is followed by a sibling
C6_Witness ==
  /\ lastCall.op = "assignSectors"
  /\ \E p \in DOMAIN nodeMap :
        /\ nodeMap[p].level > 0
        /\ Len(nodeMap[p].children) > 1
        /\ RSub(nodeMap[nodeMap[p].children[1]].sectorEnd,
                nodeMap[nodeMap[p].children[1]].sectorStart)
             = RInt(MIN_ANGLE_BETWEEN_SIBLINGS)

\* C7: after assignSectors the sectors of the children of every visible
\* parent below the root lie inside the parent's sector: no child's sector
\* begins before the parent's or ends after it.
C7_ChildSectorsInsideParent ==
  SectorsAssigned =>
     \A p \in DOMAIN nodeMap \ {RootId} :
        \A i \in 1..Len(nodeMap[p].children) :
           /\ RLe(nodeMap[p].sectorStart, nodeMap[nodeMap[p].children[i]].sectorStart)
           /\ RLe(nodeMap[nodeMap[p].children[i]].sectorEnd, nodeMap[p].sectorEnd)

\* C8: in static mode an updateNodes directly after an updateNodes, with the
\* same tree and the same expanded set, publishes the position map that was
\* published before it.
C8_StaticUpdateIdempotent ==
  [][(/\ lastCall.op = "updateNodes"
      /\ lastCall'.op = "updateNodes"
      /\ steps' = steps + 1
      /\ layoutMode = "static"
      /\ rootNode' = rootNode
      /\ expandedNodes' = expandedNodes)
       => nodePositions' = nodePositions]_vars

\* C8 witness: the second of two such calls has run, with an entry in the
\* store and three levels visible
C8_Witness ==
  /\ lastCall.op = "updateNodes"
  /\ lastCall.repeated
  /\ userPositions # EmptyMap
  /\ "a" \in expandedNodes

\* C9: when the static resolver ended by its early break, every two visible
\* nodes that are not both fixed are at least the sum of their collision
\* radii apart, coinciding nodes included.
C9_ConvergedMeansApart ==
  (JustRebuilt /\ ~simulation.exists /\ staticConverged) =>
     \A a \in DOMAIN nodeMap, b \in DOMAIN nodeMap :
        (a # b /\ ~(IsFixed(nodeMap, userPositions, a)
                      /\ IsFixed(nodeMap, userPositions, b)))
          => (nodeMap[b].x - nodeMap[a].x) * (nodeMap[b].x - nodeMap[a].x)
               + (nodeMap[b].y - nodeMap[a].y) * (nodeMap[b].y - nodeMap[a].y)
             >= Px(COLLISION_RADII(nodeMap[a].level) + COLLISION_RADII(nodeMap[b].level))
                  * Px(COLLISION_RADII(nodeMap[a].level)
                         + COLLISION_RADII(nodeMap[b].level))

\* C10: the layout graph is the visible tree of the most recent
\* initSimulation or updateNodes, and a simulation that exists holds the
\* nodes and the forces of that graph, so that every tick moves those.
C10_LatestGraphOnly ==
  /\ layoutNodes # <<>> =>
       layoutNodes = buildLayoutTree(rootNode, expandedNodes).layoutNodes
  /\ DOMAIN nodeMap = Range(layoutNodes)
  /\ simulation.exists =>
       simulation.nodes = "current" /\ simulation.forces = "current"

\* C10 witness: updateNodes rebuilt the graph under a simulation that was
\* still running, and a tick has run since
C10_Witness ==
  /\ lastCall.op = "updateNodes"
  /\ lastCall.ticked
  /\ simulation.exists
  /\ simulation.alpha <= 500
  /\ isSettling \/ simulation.alpha < AlphaMin

\* the step is a call of the operation op
CallOf(op) == steps' = steps + 1 /\ lastCall'.op = op

Dragging(id) == id \in DOMAIN nodeMap /\ nodeMap[id].fx # <<>>

\* C12: from fixNode to the end of the drag, whatever timer callback and
\* updateNodes call comes in between, the dragged node stays where the last
\* setNodePosition put it: only setNodePosition moves it, a tick does not.
C12_DraggedNodeFollowsPointer ==
  [][(Dragging("a") /\ ~CallOf("setNodePosition"))
        => /\ "a" \in DOMAIN nodeMap'
           /\ PositionOf("a")' = PositionOf("a")]_vars

\* the node and its visible descendants
Subtree(nm, id) == {id} \cup Descendants(nm, id)

\* C13: releaseNode on a visible non-root node writes the current position
\* of the node and of each of its visible descendants into userPositions,
\* and the next rebuild (updateNodes) puts each of them that is still
\* visible at the position it had at the release.
C13_ReleasedSubtreeSurvivesRebuild ==
  [][/\ CallOf("releaseNode")
          => \A d \in Subtree(nodeMap, lastCall'.id) :
                d \in DOMAIN userPositions' /\ userPositions'[d] = PositionOf(d)
     /\ (CallOf("updateNodes") /\ lastCall.op = "releaseNode" /\ ~lastCall.ticked)
          => \A d \in Subtree(nodeMap, lastCall.id) \cap DOMAIN nodeMap' :
                PositionOf(d)' = PositionOf(d)]_vars

\* C14: a cancelled drag, fixNode, any number of setNodePosition calls and
\* then unfixNode, leaves userPositions as it was before the drag, for the
\* dragged node and for its descendants: none of the three calls writes it.
C14_CancelledDragKeepsStore ==
  [][(CallOf("fixNode") \/ CallOf("setNodePosition") \/ CallOf("unfixNode"))
        => userPositions' = userPositions]_vars

\* C14 witness: the drag of an expanded node is cancelled away from where the
\* node and its children are stored or, without an entry, have their target
C14_Witness ==
  /\ lastCall.op = "unfixNode"
  /\ nodeMap["a"].fx = <<>>
  /\ \A d \in Subtree(nodeMap, "a") :
        PositionOf(d) # (IF d \in DOMAIN userPositions THEN userPositions[d]
                         ELSE <<nodeMap[d].idealX, nodeMap[d].idealY>>)
  /\ Descendants(nodeMap, "a") # {}

\* C15: after arrangeChildrenCircular(parentId, childIds) every listed child
\* that is in the graph, and every visible descendant of such a child, has a
\* userPositions entry equal to the position the command gave it; the two
\* focus-mode commands leave userPositions unchanged.
C15_ArrangementStoredFocusTransient ==
  [][/\ CallOf("arrangeChildrenCircular")
          => \A c \in Range(rootNode[lastCall'.id]) \cap DOMAIN nodeMap :
                \A d \in Subtree(nodeMap, c) :
                   /\ d \in DOMAIN userPositions'
                   /\ userPositions'[d] = PositionOf(d)'
     /\ (CallOf("arrangeChildrenCircularFocusMode")
           \/ CallOf("applyFocusModeWithCollisionAvoidance"))
          => userPositions' = userPositions]_vars

\* C15 witness: two children were arranged in a fan, the first with its two
\* children fanned out behind it, and all four are in the store
C15_Witness ==
  /\ lastCall.op = "arrangeChildrenCircular"
  /\ rootNode = TreeA
  /\ {"a1", "a2", "x", "y"} \subseteq DOMAIN userPositions
  /\ \A d \in {"a1", "a2", "x", "y"} :
        /\ PositionOf(d) = userPositions[d]
        /\ PositionOf(d) = <<nodeMap[d].idealX, nodeMap[d].idealY>>

\* the gap arrangeChildrenCircularFocusMode leaves in its full circle
GAP_START_DEG == 160

GAP_END_DEG == 200

\* the angle between two directions given in whole degrees, in 0..180
AngleApart(a, b) ==
  IF Abs(a - b) % 360 > 180 THEN 360 - (Abs(a - b) % 360) ELSE Abs(a - b) % 360

\* the direction from one node to another, in whole degrees
Direction(from, to) == Atan2Deg(to.y - from.y, to.x - from.x)

\* (7 * 90) / (2 * PI) pixels in tenths, rounded up (PI as 355/113)
SevenChildRadius == (7 * 90 * 113 * 10) \div (2 * 355) + 1

\* C16: arrangeChildrenCircular on a node with seven children puts them on
\* a circle of radius at least (7*90)/(2*pi) around the node and leaves a
\* gap on the side facing the node's parent: no child lies within half the
\* gap's width of the direction from the node to its parent.
C16_SevenChildrenLeaveGap ==
  (/\ lastCall.op = "arrangeChildrenCircular"
   /\ Len(rootNode["a"]) = 7
   /\ Range(rootNode["a"]) \subseteq DOMAIN nodeMap)
     => \A c \in Range(rootNode["a"]) :
           /\ 2 * AngleApart(Direction(nodeMap["a"], nodeMap[c]),
                             Direction(nodeMap["a"], nodeMap[RootId]))
                >= GAP_END_DEG - GAP_START_DEG
           /\ (nodeMap[c].x - nodeMap["a"].x) * (nodeMap[c].x - nodeMap["a"].x)
                + (nodeMap[c].y - nodeMap["a"].y) * (nodeMap[c].y - nodeMap["a"].y)
                >= SevenChildRadius * SevenChildRadius

\* C17: right after resetToOriginalPositions every visible node, the root
\* included, is at its userPositions entry when it has one and otherwise at
\* its ideal position.
C17_FocusExitRestoresAll ==
  (lastCall.op = "resetToOriginalPositions" /\ ~lastCall.ticked) =>
     \A id \in DOMAIN nodeMap :
        PositionOf(id) = (IF id \in DOMAIN userPositions THEN userPositions[id]
                          ELSE <<nodeMap[id].idealX, nodeMap[id].idealY>>)

\* C18: in every reachable state getPosition(id), the entry of id in the
\* published map, is absent for every id that is not a node of the current
\* layout graph, also right after a collapsing updateNodes in simulation
\* mode and after destroy, and it is a position for every id of the graph.
C18_GetPositionMatchesGraph ==
  \A id \in DOMAIN rootNode :
     (id \in DOMAIN nodePositions) <=> (id \in DOMAIN nodeMap)

\* C19: on every rebuild by updateNodes, in both modes, each visible
\* non-root node starts at its userPositions entry if it has one, otherwise
\* at the position it had just before the rebuild if it was visible then,
\* otherwise at its ideal position.
C19_StartPositionPriority ==
  [][CallOf("updateNodes")
       => \A id \in DOMAIN nodeMap' :
             nodeMap'[id].level # 0
               => PositionOf(id)'
                    = (IF id \in DOMAIN userPositions THEN userPositions[id]
                       ELSE IF id \in DOMAIN nodeMap THEN PositionOf(id)
                       ELSE <<nodeMap'[id].idealX, nodeMap'[id].idealY>>)]_vars

\* the operation that ran last is one of those that set isSettling
SetSettling == lastCall.op \in {"initSimulation", "updateNodes", "wobble", "releaseNode"}

\* C20: in simulation mode, once initSimulation, updateNodes, wobble or
\* releaseNode has set isSettling, and no further operation is invoked while
\* ticks keep coming, isSettling stays true as long as the simulation runs
\* and is false from its end event on: it does not stay true forever.
C20_SettlingEnds ==
  /\ [][(/\ layoutMode = "simulation" /\ SetSettling /\ isSettling
         /\ steps' = steps)
          => (isSettling' <=> simulation'.running)]_vars
  /\ \A n \in 0..MaxSettleSteps :
        (layoutMode = "simulation" /\ SetSettling /\ isSettling /\ steps = n)
          ~> (~isSettling \/ steps # n)

\* C20 witness: the ticks after a wobble have brought the simulation to its
\* end and isSettling is false again
C20_Witness ==
  /\ layoutMode = "simulation"
  /\ lastCall.op = "wobble"
  /\ lastCall.ticked
  /\ simulation.exists
  /\ ~simulation.running
  /\ ~isSettling

\* the proper ancestors of id in the Node tree
RECURSIVE AncestorsIn(_, _)
AncestorsIn(tree, id) ==
  IF id = RootId THEN {}
  ELSE LET parent == CHOOSE p \in DOMAIN tree : id \in Range(tree[p])
       IN  {parent} \cup AncestorsIn(tree, parent)

\* C21: buildLayoutTree produces exactly the root (level 0), the root's
\* children (level 1) and every node whose parent is in the graph at level
\* >= 1 with its id in the expanded set, in other words the nodes all of
\* whose ancestors below the root are expanded; each node's level is its
\* parent's level + 1, and an expanded id under an ancestor of level >= 1
\* that is not expanded contributes no nodes.
C21_BuildLayoutTreeNodes ==
  lastCall.op = "buildLayoutTree"
    => /\ DOMAIN nodeMap
            = {id \in DOMAIN rootNode :
                 AncestorsIn(rootNode, id) \ {RootId} \subseteq expandedNodes}
       /\ Range(layoutNodes) = DOMAIN nodeMap
       /\ Len(layoutNodes) = Cardinality(DOMAIN nodeMap)
       /\ \A id \in DOMAIN nodeMap :
            /\ nodeMap[id].id = id
            /\ nodeMap[id].level = Cardinality(AncestorsIn(rootNode, id))
            /\ id # RootId
                 => /\ nodeMap[id].parentId \in DOMAIN nodeMap
                    /\ id \in Range(rootNode[nodeMap[id].parentId])
                    /\ nodeMap[id].level = nodeMap[nodeMap[id].parentId].level + 1
                    /\ id \in Range(nodeMap[nodeMap[id].parentId].children)
       /\ nodeMap[RootId].level = 0
       /\ Range(rootNode[RootId]) \subseteq DOMAIN nodeMap

\* C21 witness: a1 is in the expanded set and its parent a is not, so the
\* children of a1 are not built, while the child of the expanded b is
C21_Witness ==
  /\ lastCall.op = "buildLayoutTree"
  /\ rootNode = TreeA
  /\ expandedNodes = {"a1", "b"}
  /\ "b1" \in DOMAIN nodeMap
  /\ "a1" \notin DOMAIN nodeMap
  /\ "x" \notin DOMAIN nodeMap

\* the squared length of (x, y) lies within tol of len (fixed-point units)
LengthNear(x, y, len, tol) ==
  /\ x * x + y * y >= Max(0, len - tol) * Max(0, len - tol)
  /\ x * x + y * y <= (len + tol) * (len + tol)

\* the push (px, py) has the direction of (dx, dy), up to the rounding of
\* its two components
AlongLine(px, py, dx, dy) ==
  /\ px * dx + py * dy >= 0
  /\ (px * dy - py * dx) * (px * dy - py * dx) <= 4 * (dx * dx + dy * dy)

\* what one push did to an overlapping pair a, b of the node maps nm, nm2:
\* fixedA, fixedB say which of the two is the root or has a userPositions
\* entry, d is the distance before, m the required distance and tol the
\* resolution of the fixed-point arithmetic
PushedApart(nm, nm2, a, b, fixedA, fixedB, dx, dy, d, m, tol) ==
  /\ fixedA => nm2[a] = nm[a]
  /\ fixedB => nm2[b] = nm[b]
  /\ (fixedA /\ ~fixedB)
       => /\ LengthNear(nm2[b].idealX - nm[b].idealX, nm2[b].idealY - nm[b].idealY, m - d, tol)
          /\ AlongLine(nm2[b].idealX - nm[b].idealX, nm2[b].idealY - nm[b].idealY, dx, dy)
  /\ (~fixedA /\ fixedB)
       => /\ LengthNear(nm2[a].idealX - nm[a].idealX, nm2[a].idealY - nm[a].idealY, m - d, tol)
          /\ AlongLine(nm[a].idealX - nm2[a].idealX, nm[a].idealY - nm2[a].idealY, dx, dy)
  /\ (~fixedA /\ ~fixedB)
       => /\ LengthNear(2 * (nm2[b].idealX - nm[b].idealX), 2 * (nm2[b].idealY - nm[b].idealY), m - d, tol)
          /\ AlongLine(nm2[b].idealX - nm[b].idealX, nm2[b].idealY - nm[b].idealY, dx, dy)
          /\ nm2[a].idealX - nm[a].idealX = -(nm2[b].idealX - nm[b].idealX)
          /\ nm2[a].idealY - nm[a].idealY = -(nm2[b].idealY - nm[b].idealY)
  /\ ~(fixedA /\ fixedB)
       => LengthNear(nm2[b].idealX - nm2[a].idealX, nm2[b].idealY - nm2[a].idealY, m, tol)
  /\ \A id \in {a, b} : nm2[id].x = nm[id].x /\ nm2[id].y = nm[id].y

\* C22: one push of the static resolver on an overlapping pair with
\* distance d > 0 and required distance m = radiusA + radiusB + padding
\* moves each node by (m - d)/2 along the connecting line in opposite
\* directions when both are movable, moves only the movable one by m - d
\* when exactly one is fixed (root or userPositions entry), moves neither
\* when both are fixed; the distance of a pair with a moved node is m right
\* after the push, and a fixed node keeps its position. Lengths are compared
\* up to the rounding of the pushed positions (0.4 pixels) and, where d is
\* not a whole number of fixed-point units, the share m/d of the unit lost
\* in the square root.
C22_PushSeparatesPair ==
  [][CallOf("resolvePair")
       => LET a == layoutNodes[1]
              b == layoutNodes[2]
              dx == nodeMap[b].idealX - nodeMap[a].idealX
              dy == nodeMap[b].idealY - nodeMap[a].idealY
              d == Sqrt(dx * dx + dy * dy)
              m == Px(COLLISION_RADII(nodeMap[a].level)
                        + COLLISION_RADII(nodeMap[b].level) + 10)
          IN  (dx * dx + dy * dy > 0 /\ dx * dx + dy * dy < m * m)
                => PushedApart(nodeMap, nodeMap', a, b,
                               nodeMap[a].level = 0 \/ a \in DOMAIN userPositions,
                               nodeMap[b].level = 0 \/ b \in DOMAIN userPositions,
                               dx, dy, d, m,
                               IF d * d = dx * dx + dy * dy THEN 4
                               ELSE 5 + m \div d)]_vars

\* C22 witness: a at (0, 0) and a1 at (150, 0) overlapped, both movable,
\* and the push has moved both along the x axis to the required distance
C22_Witness ==
  /\ lastCall.op = "resolvePair"
  /\ layoutNodes = <<"a", "a1">>
  /\ userPositions = EmptyMap
  /\ ~staticConverged
  /\ nodeMap["a"].idealX = -nodeMap["a1"].idealX + Px(150)
  /\ nodeMap["a"].idealY = 0
  /\ nodeMap["a1"].idealX - nodeMap["a"].idealX >= Px(220)

\* C23: after the focus-mode layout for a focused node at any level >= 1
\* the focused node is at the origin, and the root, the ancestors between
\* root and focused node and the focused node lie on the x axis at pairwise
\* distinct positions, ordered by x in path order with the root leftmost.
C23_FocusChainOrdered ==
  lastCall.op = "applyFocusModeWithCollisionAvoidance"
    => /\ nodeMap[lastCall.id].x = 0
       /\ nodeMap[lastCall.id].y = 0
       /\ \A p \in AncestorsIn(rootNode, lastCall.id) \cup {lastCall.id} :
            /\ nodeMap[p].y = 0
            /\ \A q \in AncestorsIn(rootNode, lastCall.id) \cup {lastCall.id} :
                 nodeMap[p].level < nodeMap[q].level => nodeMap[p].x < nodeMap[q].x

\* the positions calculateFocusModeLayout hands over for the node focused
\* by the call that is being made
GivenPositions ==
  calculateFocusModeLayout(rootNode, expandedNodes, lastCall'.id).positions

\* C24: when applyFocusModeWithCollisionAvoidance returns, every node listed
\* in fixedPositions (root, ancestor chain, focused node and its placed
\* children) is exactly at the position given for it, so that only nodes
\* outside that set were moved by the collision burst, and fx and fy are
\* cleared for every node of level > 0.
C24_FocusNodesPlacedAndFreed ==
  [][CallOf("applyFocusModeWithCollisionAvoidance")
       => /\ \A id \in DOMAIN GivenPositions \cap DOMAIN nodeMap :
               /\ nodeMap'[id].x = GivenPositions[id][1]
               /\ nodeMap'[id].y = GivenPositions[id][2]
          /\ \A id \in DOMAIN nodeMap' :
               nodeMap'[id].level > 0
                 => nodeMap'[id].fx = <<>> /\ nodeMap'[id].fy = <<>>
          /\ DOMAIN nodeMap' = DOMAIN nodeMap
          /\ {RootId, lastCall'.id} \subseteq DOMAIN GivenPositions
          /\ lastCall'.id \in expandedNodes
               => Range(rootNode[lastCall'.id]) \subseteq DOMAIN GivenPositions]_vars

\* C24 witness: a was focused with its children placed around it, and the
\* burst has pushed c, which has no given position, away from where the
\* static layout had put it
C24_Witness ==
  /\ lastCall.op = "applyFocusModeWithCollisionAvoidance"
  /\ lastCall.id = "a"
  /\ steps = 2
  /\ "a" \in expandedNodes
  /\ "a1" \in DOMAIN nodeMap
  /\ nodeMap["a"].x = 0
  /\ nodeMap["a"].fx = <<>>
  /\ \E id \in DOMAIN nodeMap \ ({"r", "a"} \cup Range(rootNode["a"])) :
       nodeMap[id].x # nodeMap[id].idealX \/ nodeMap[id].y # nodeMap[id].idealY

\* C25: resetNodePosition(id) removes the node's userPositions entry and
\* puts the node at its computed ideal position, the one the layout derives
\* from its sector and level alone, also when the entry was created by
\* releaseNode or arrangeChildrenCircular or was applied by an earlier
\* updateNodes.
C25_ResetToComputedIdeal ==
  [][CallOf("resetNodePosition")
       => /\ lastCall'.id \notin DOMAIN userPositions'
          /\ lastCall'.id \in DOMAIN nodeMap
               => /\ nodeMap'[lastCall'.id].x
                       = FreshLayout(rootNode, expandedNodes).nodeMap[lastCall'.id].idealX
                  /\ nodeMap'[lastCall'.id].y
                       = FreshLayout(rootNode, expandedNodes).nodeMap[lastCall'.id].idealY]_vars

\* the width of a node's sector, in degrees
SectorWidth(id) == RSub(nodeMap[id].sectorEnd, nodeMap[id].sectorStart)

\* C26: with a root that has 4 level-1 children each level-1 sector is 90
\* degrees wide and the first starts at -90 degrees; each of the 3 leaf
\* children of equal weight of an expanded level-1 node has a sector one
\* third as wide as the level-1 node's sector, and its ideal position is at
\* distance BASE_DISTANCES[2] + 3 * DISTANCE_PER_CHILD from the parent's
\* ideal position (compared up to one pixel, the resolution of the sine
\* table).
C26_ThreeChildrenShareSector ==
  (lastCall.op = "calculateIdealPositions" /\ Len(nodeMap[RootId].children) = 4)
    => /\ nodeMap[nodeMap[RootId].children[1]].sectorStart = RInt(-90)
       /\ \A p \in Range(nodeMap[RootId].children) : SectorWidth(p) = RInt(90)
       /\ \A p \in Range(nodeMap[RootId].children) :
            (/\ Len(nodeMap[p].children) = 3
             /\ \A c \in Range(nodeMap[p].children) :
                  nodeMap[c].children = <<>> /\ nodeMap[c].weight = nodeMap[nodeMap[p].children[1]].weight)
              => \A c \in Range(nodeMap[p].children) :
                   /\ SectorWidth(c) = RDiv(SectorWidth(p), RInt(3))
                   /\ nodeMap[c].idealRadius = BASE_DISTANCES(2) + 3 * DISTANCE_PER_CHILD
                   /\ LengthNear(nodeMap[c].idealX - nodeMap[p].idealX,
                                 nodeMap[c].idealY - nodeMap[p].idealY,
                                 Px(BASE_DISTANCES(2) + 3 * DISTANCE_PER_CHILD), 10)

\* the visible nodes below id in the tree of the latest rebuild
VisibleBelow(id) == {d \in DOMAIN nodeMap : id \in AncestorsIn(rootNode, d)}

\* C27: setNodePosition(id, x, y) on a visible non-root node puts the node
\* exactly at (x, y), moves every visible descendant by the same
\* displacement, and leaves every node outside the node's subtree, all
\* ideal positions and userPositions unchanged; on the root or an unknown
\* id it changes nothing.
C27_DragMovesSubtreeOnly ==
  [][/\ CallOf("setNodePosition")
          => /\ lastCall'.id \in DOMAIN nodeMap
             /\ DOMAIN nodeMap' = DOMAIN nodeMap
             /\ <<nodeMap'[lastCall'.id].x, nodeMap'[lastCall'.id].y>>
                  \in {<<Px(pos[1]), Px(pos[2])>> : pos \in DragTargets}
             /\ \A d \in VisibleBelow(lastCall'.id) :
                  /\ nodeMap'[d].x - nodeMap'[lastCall'.id].x
                       = nodeMap[d].x - nodeMap[lastCall'.id].x
                  /\ nodeMap'[d].y - nodeMap'[lastCall'.id].y
                       = nodeMap[d].y - nodeMap[lastCall'.id].y
             /\ \A o \in DOMAIN nodeMap \ (VisibleBelow(lastCall'.id) \cup {lastCall'.id}) :
                  nodeMap'[o] = nodeMap[o]
             /\ \A n \in DOMAIN nodeMap :
                  [nodeMap'[n] EXCEPT !.x = 0, !.y = 0] = [nodeMap[n] EXCEPT !.x = 0, !.y = 0]
             /\ userPositions' = userPositions
     /\ \A id \in {RootId, "unknown"}, pos \in DragTargets :
          setNodePosition(nodeMap, id, Px(pos[1]), Px(pos[2])) = nodeMap]_vars

\* C27 witness: a1 was dragged to (430, 0) with its children x and y
\* visible, and x is where it was relative to a1
C27_Witness ==
  /\ lastCall.op = "setNodePosition"
  /\ lastCall.id = "a1"
  /\ {"x", "y"} \subseteq DOMAIN nodeMap
  /\ PositionOf("a1") = <<Px(430), 0>>
  /\ nodeMap["x"].x - nodeMap["a1"].x = nodeMap["x"].idealX - nodeMap["a1"].idealX
  /\ nodeMap["x"].x # nodeMap["x"].idealX

\* C28: while focus mode is active, ending a drag of any node, whatever its
\* level and wherever it was dropped (a level-1 node dropped onto one of its
\* own children included), leaves userPositions unchanged: no entry is
\* added, overwritten or removed.
C28_FocusDropKeepsStore ==
  [][(/\ isInFocusMode
      /\ lastCall.op = "setNodePosition"
      /\ CallOf("resetNodePosition") \/ CallOf("unfixNode") \/ CallOf("releaseNode"))
        => userPositions' = userPositions]_vars

\* C29: in every reachable state isSettling is true only if a simulation
\* object exists and its tick loop is running; after destroy, after fixNode
\* and after the end event isSettling is false whenever no loop is running.
C29_SettlingNeedsLoop ==
  isSettling => simulation.exists /\ simulation.running

\* C30: whenever the layout mode is 'static', no tick loop is running and
\* isSettling is false, after any sequence of setLayoutMode, initSimulation,
\* updateNodes, wobble, fixNode and releaseNode, also when the mode was
\* switched from 'simulation' to 'static' while a simulation exists and
\* releaseNode or wobble is called before the next updateNodes.
C30_StaticModeIsQuiet ==
  layoutMode = "static" => ~simulation.running /\ ~isSettling

====
